---- MODULE Spec2Model ----
(***************************************************************************)
(* Ledger consistency engine of the retail bookkeeping application:        *)
(* the localStorage-backed local_ operations of src/src/api.ts, driven    *)
(* by the form handlers of the React front end (App component), together   *)
(* with the derived views the front end computes from a snapshot.          *)
(*                                                                         *)
(* Quantities and amounts are integers.  A form amount is always a         *)
(* multiple of the form quantity, so that amount / qty is exact.           *)
(* Timestamps are a logical clock that advances with every command that    *)
(* changes the store; free-text fields (note, sku, phone) are left out.    *)
(***************************************************************************)
EXTENDS Integers, Sequences, FiniteSets, TLC

VARIABLES products, customers, sales, stock_movements, credits, ids, clock

vars == <<products, customers, sales, stock_movements, credits, ids, clock>>

(***************************************************************************)
(* Bounds of the model.                                                    *)
(***************************************************************************)
\* number of commands that change the store
MaxOps == 3
\* largest quantity / unit price / payment amount typed into a form
MaxQty == 2
MaxPrice == 1
MaxPay == 1

(***************************************************************************)
(* Values of the program.                                                  *)
(***************************************************************************)
\* JavaScript null for numeric fields (ids start at 1, amounts are >= 0
\* wherever the field is nullable)
Null == -1
\* null for the denormalized name snapshots
NullName == "null"

\* seed data of loadState
SeedPrice1 == 3500
SeedQty1 == 120
SeedPrice2 == 4200
SeedQty2 == 80
SeedSaleQty == 5

\* the names a form can submit
NameSet == {"N"}

\* outcome of a command: none, or the message of the handler / operation that rejects it
NoError == "none"
ErrQtyPositive == "qty must be > 0"
ErrCreditNeedsCustomer == "credit sale needs a customer"
ErrReturnQtyNegative == "return qty must be >= 0"
ErrOverReturn == "return qty exceeds remaining qty"
ErrReturnEditQty == "return qty must be > 0"
ErrPayAmount == "payment amount must be > 0"
ErrReturnImmutable == "a return cannot be edited as a sale"
ErrReturnImmutableDelete == "a return cannot be deleted as a sale"
ErrSaleHasReturns == "a sale with returns cannot be edited"
ErrSaleHasReturnsDelete == "a sale with returns cannot be deleted"
ErrStockShort == "insufficient stock"
\* reading a field of undefined (a customer id that does not resolve)
ErrTypeError == "TypeError"

(***************************************************************************)
(* Array helpers.                                                          *)
(***************************************************************************)
Max(a, b) == IF a >= b THEN a ELSE b

Min(a, b) == IF a <= b THEN a ELSE b

Abs(a) == IF a >= 0 THEN a ELSE 0 - a

Range(s) == {s[i] : i \in DOMAIN s}

\* Array.prototype.unshift
Unshift(s, x) == <<x>> \o s

\* Array.prototype.some on an id test
HasId(s, id) == \E i \in 1..Len(s) : s[i].id = id

\* Array.prototype.find on an id test (callers test HasId first)
IndexOfId(s, id) == CHOOSE i \in 1..Len(s) : s[i].id = id /\ \A j \in 1..(i - 1) : s[j].id # id

FindById(s, id) == s[IndexOfId(s, id)]

\* sum of a sequence of numbers
RECURSIVE SumNums(_)
SumNums(s) == IF Len(s) = 0 THEN 0 ELSE Head(s) + SumNums(Tail(s))

\* Array.prototype.reduce((sum, x) => sum + F(x), 0)
SumSeq(s, F(_)) == SumNums([i \in 1..Len(s) |-> F(s[i])])

\* Array.prototype.some / filter / findIndex
Some(s, T(_)) == \E i \in 1..Len(s) : T(s[i])

Filter(s, T(_)) == SelectSeq(s, T)

FindIndex(s, T(_)) == CHOOSE i \in 1..Len(s) : T(s[i]) /\ \A j \in 1..(i - 1) : ~T(s[j])

\* the store as one value: the CanonicalState read by loadState plus the id counters
Store == [products |-> products, customers |-> customers, sales |-> sales,
          stock_movements |-> stock_movements, credits |-> credits,
          ids |-> ids, clock |-> clock]

\* nowIso(): the current timestamp
nowIso(st) == st.clock

\* bumpId that hands out the id and leaves the counter where it was
bumpId_NoAdvance(st, key) == st

\* bumpId(key): the id handed out, and the store with the counter advanced
bumpId(st, key) == [st EXCEPT !.ids[key] = @ + 1]

\* customer name snapshot: customers.find(c => c.id === id)?.name ?? null
CustomerNameOf(st, cid) ==
    IF cid # Null /\ HasId(st.customers, cid) THEN FindById(st.customers, cid).name ELSE NullName

(***************************************************************************)
(* Initial store: the seed written by loadState on first use.              *)
(***************************************************************************)
loadState ==
    [products |-> << [id |-> 1, name |-> "PET", unit_price |-> SeedPrice1, qty |-> SeedQty1, created_at |-> 0],
                     [id |-> 2, name |-> "BLK", unit_price |-> SeedPrice2, qty |-> SeedQty2 - SeedSaleQty, created_at |-> 0] >>,
     customers |-> << [id |-> 1, name |-> "Hong", created_at |-> 0] >>,
     sales |-> << [id |-> 1, ts |-> 0, product_id |-> 2, product_name |-> "BLK", qty |-> SeedSaleQty,
                   unit_price |-> SeedPrice2, total_amount |-> SeedPrice2 * SeedSaleQty,
                   customer_id |-> 1, customer_name |-> "Hong",
                   is_credit |-> TRUE, is_return |-> FALSE, origin_sale_id |-> Null] >>,
     stock_movements |-> << [id |-> 1, ts |-> 0, kind |-> "OUT", product_id |-> 2, product_name |-> "BLK",
                             qty |-> SeedSaleQty, unit_price |-> SeedPrice2,
                             total_amount |-> SeedPrice2 * SeedSaleQty,
                             customer_id |-> 1, customer_name |-> "Hong", sale_id |-> 1] >>,
     credits |-> << [id |-> 1, ts |-> 0, customer_id |-> 1, customer_name |-> "Hong", sale_id |-> 1,
                     amount |-> SeedPrice2 * SeedSaleQty, is_payment |-> FALSE] >>,
     ids |-> [product |-> 3, customer |-> 2, sale |-> 2, stock |-> 2, credit |-> 2],
     clock |-> 1]

Init ==
    /\ products = loadState.products
    /\ customers = loadState.customers
    /\ sales = loadState.sales
    /\ stock_movements = loadState.stock_movements
    /\ credits = loadState.credits
    /\ ids = loadState.ids
    /\ clock = loadState.clock

(***************************************************************************)
(* Operations of the store (api.ts).  Each takes the loaded store and the  *)
(* payload and yields the saved store and the thrown message (NoError when *)
(* the operation returns a snapshot).                                      *)
(***************************************************************************)
Ok(st) == [st |-> st, err |-> NoError]

Throw(st, msg) == [st |-> st, err |-> msg]

NewMovement(st, id, kind, product, qty, unit_price, total, cid, sale_id) ==
    [id |-> id, ts |-> nowIso(st), kind |-> kind, product_id |-> product.id,
     product_name |-> product.name, qty |-> qty, unit_price |-> unit_price,
     total_amount |-> total, customer_id |-> cid,
     customer_name |-> CustomerNameOf(st, cid), sale_id |-> sale_id]

NewCredit(st, id, cid, cname, sale_id, amount, is_payment) ==
    [id |-> id, ts |-> nowIso(st), customer_id |-> cid, customer_name |-> cname,
     sale_id |-> sale_id, amount |-> amount, is_payment |-> is_payment]

NewSale(st, id, product, qty, unit_price, total, cid, is_credit, is_return) ==
    [id |-> id, ts |-> nowIso(st), product_id |-> product.id, product_name |-> product.name,
     qty |-> qty, unit_price |-> unit_price, total_amount |-> total,
     customer_id |-> cid, customer_name |-> CustomerNameOf(st, cid),
     is_credit |-> is_credit, is_return |-> is_return, origin_sale_id |-> Null]

\* local_create_product that records no IN movement for the initial quantity
local_create_product_NoMovement(st, payload) ==
    LET withStock == payload.initial_qty # Null /\ payload.initial_qty # 0 /\ payload.initial_qty > 0
        product == [id |-> st.ids.product, name |-> payload.name, unit_price |-> payload.unit_price,
                    qty |-> IF withStock THEN payload.initial_qty ELSE 0,
                    created_at |-> nowIso(st)]
    IN  Ok([bumpId(st, "product") EXCEPT !.products = Unshift(@, product)])

\* payload: [name, unit_price, initial_qty]
local_create_product(st, payload) ==
    LET id == st.ids.product
        withStock == payload.initial_qty # Null /\ payload.initial_qty # 0 /\ payload.initial_qty > 0
        product == [id |-> id, name |-> payload.name, unit_price |-> payload.unit_price,
                    qty |-> IF withStock THEN payload.initial_qty ELSE 0,
                    created_at |-> nowIso(st)]
        s1 == bumpId(st, "product")
        s2 == IF withStock
              THEN [bumpId(s1, "stock") EXCEPT !.stock_movements =
                       Unshift(@, [NewMovement(st, s1.ids.stock, "IN", product, payload.initial_qty,
                                               Null, Null, Null, Null) EXCEPT !.product_name = payload.name])]
              ELSE s1
    IN  Ok([s2 EXCEPT !.products = Unshift(@, product)])

\* payload: [id, name, unit_price]
local_update_product(st, payload) ==
    IF ~HasId(st.products, payload.id) THEN Ok(st)
    ELSE LET i == IndexOfId(st.products, payload.id)
         IN  Ok([st EXCEPT !.products[i].name = payload.name,
                           !.products[i].unit_price = payload.unit_price])

local_delete_product(st, productId) ==
    Ok([st EXCEPT !.products = Filter(@, LAMBDA p : p.id # productId),
                  !.sales = Filter(@, LAMBDA s : s.product_id # productId),
                  !.stock_movements = Filter(@, LAMBDA m : m.product_id # productId)])

\* payload: [name]
local_create_customer(st, payload) ==
    LET s1 == bumpId(st, "customer")
    IN  Ok([s1 EXCEPT !.customers =
                  Unshift(@, [id |-> st.ids.customer, name |-> payload.name, created_at |-> nowIso(st)])])

\* payload: [id, name]
local_update_customer(st, payload) ==
    IF ~HasId(st.customers, payload.id) THEN Ok(st)
    ELSE LET i == IndexOfId(st.customers, payload.id)
         IN  Ok([st EXCEPT !.customers[i].name = payload.name,
                           !.sales = [k \in 1..Len(@) |->
                                        IF @[k].customer_id = payload.id
                                        THEN [@[k] EXCEPT !.customer_name = payload.name] ELSE @[k]],
                           !.credits = [k \in 1..Len(@) |->
                                        IF @[k].customer_id = payload.id
                                        THEN [@[k] EXCEPT !.customer_name = payload.name] ELSE @[k]]])

\* local_delete_customer that leaves the customer's credit entries behind
local_delete_customer_KeepCredits(st, customerId) ==
    Ok([st EXCEPT !.customers = Filter(@, LAMBDA c : c.id # customerId),
                  !.sales = [k \in 1..Len(@) |->
                               IF @[k].customer_id = customerId
                               THEN [@[k] EXCEPT !.customer_id = Null, !.customer_name = NullName]
                               ELSE @[k]]])

local_delete_customer(st, customerId) ==
    Ok([st EXCEPT !.customers = Filter(@, LAMBDA c : c.id # customerId),
                  !.sales = [k \in 1..Len(@) |->
                               IF @[k].customer_id = customerId
                               THEN [@[k] EXCEPT !.customer_id = Null, !.customer_name = NullName]
                               ELSE @[k]],
                  !.credits = Filter(@, LAMBDA cr : cr.customer_id # customerId)])

\* local_record_stock_entry that lets the quantity go below 0
local_record_stock_entry_NoFloor(st, payload) ==
    IF ~HasId(st.products, payload.product_id) THEN Ok(st)
    ELSE LET i == IndexOfId(st.products, payload.product_id)
             product == st.products[i]
             sign == IF payload.kind = "IN" THEN 1 ELSE -1
             s1 == [st EXCEPT !.products[i].qty = product.qty + sign * payload.qty]
             s2 == bumpId(s1, "stock")
             mv == NewMovement(st, s1.ids.stock, payload.kind, product, payload.qty, payload.unit_price,
                               IF payload.unit_price # Null THEN payload.unit_price * payload.qty ELSE Null,
                               payload.customer_id, Null)
         IN  Ok([s2 EXCEPT !.stock_movements = Unshift(@, mv)])

\* payload: [product_id, qty, kind, unit_price, customer_id]
local_record_stock_entry(st, payload) ==
    IF ~HasId(st.products, payload.product_id) THEN Ok(st)
    ELSE LET i == IndexOfId(st.products, payload.product_id)
             product == st.products[i]
             qty == payload.qty
             sign == IF payload.kind = "IN" THEN 1 ELSE -1
             s1 == [st EXCEPT !.products[i].qty = Max(product.qty + sign * qty, 0)]
             s2 == bumpId(s1, "stock")
             mv == NewMovement(st, s1.ids.stock, payload.kind, product, qty, payload.unit_price,
                               IF payload.unit_price # Null THEN payload.unit_price * qty ELSE Null,
                               payload.customer_id, Null)
         IN  Ok([s2 EXCEPT !.stock_movements = Unshift(@, mv)])

\* payload: [product_id, qty, unit_price, customer_id, is_credit]
local_record_sale(st, payload) ==
    IF ~HasId(st.products, payload.product_id) THEN Ok(st)
    ELSE LET i == IndexOfId(st.products, payload.product_id)
             product == st.products[i]
             qty == payload.qty
             unitPrice == IF payload.unit_price # Null THEN payload.unit_price ELSE product.unit_price
             total == unitPrice * qty
             s1 == [st EXCEPT !.products[i].qty = Max(product.qty - qty, 0)]
             saleId == s1.ids.sale
             s2 == [bumpId(s1, "sale") EXCEPT !.sales =
                       Unshift(@, NewSale(st, saleId, product, qty, unitPrice, total,
                                          payload.customer_id, payload.is_credit, FALSE))]
             s3 == [bumpId(s2, "stock") EXCEPT !.stock_movements =
                       Unshift(@, NewMovement(st, s2.ids.stock, "OUT", product, qty, unitPrice, total,
                                              payload.customer_id, saleId))]
             s4 == IF payload.is_credit /\ payload.customer_id # Null
                   THEN [bumpId(s3, "credit") EXCEPT !.credits =
                            Unshift(@, NewCredit(st, s3.ids.credit, payload.customer_id,
                                                 CustomerNameOf(st, payload.customer_id),
                                                 saleId, total, FALSE))]
                   ELSE s3
         IN  IF payload.is_credit /\ payload.customer_id # Null /\ ~HasId(st.customers, payload.customer_id)
             THEN \* customer.id of an undefined customer: thrown after the ids were bumped, before saveState
                  Throw([st EXCEPT !.ids = s4.ids], ErrTypeError)
             ELSE Ok(s4)

\* override_amount / qty (the forms submit amounts that are multiples of qty)
Quotient(a, b) == IF b = 0 THEN 0 ELSE a \div b

\* payload: [product_id, customer_id, qty, override_amount]
local_record_return(st, payload) ==
    IF ~HasId(st.products, payload.product_id) THEN Ok(st)
    ELSE LET i == IndexOfId(st.products, payload.product_id)
             product == st.products[i]
             qty == payload.qty
             s1 == [st EXCEPT !.products[i].qty = product.qty + qty]
             unitPrice == IF payload.override_amount # Null
                          THEN Quotient(payload.override_amount, qty) ELSE product.unit_price
             total == unitPrice * qty
             saleId == s1.ids.sale
             s2 == [bumpId(s1, "sale") EXCEPT !.sales =
                       Unshift(@, NewSale(st, saleId, product, qty, unitPrice, total,
                                          payload.customer_id, FALSE, TRUE))]
             s3 == [bumpId(s2, "stock") EXCEPT !.stock_movements =
                       Unshift(@, NewMovement(st, s2.ids.stock, "RETURN", product, qty, unitPrice, total,
                                              payload.customer_id, saleId))]
             s4 == IF payload.customer_id # Null
                   THEN [bumpId(s3, "credit") EXCEPT !.credits =
                            Unshift(@, NewCredit(st, s3.ids.credit, payload.customer_id,
                                                 CustomerNameOf(st, payload.customer_id),
                                                 saleId, total, TRUE))]
                   ELSE s3
         IN  IF payload.customer_id # Null /\ ~HasId(st.customers, payload.customer_id)
             THEN Throw([st EXCEPT !.ids = s4.ids], ErrTypeError)
             ELSE Ok(s4)

\* payload: [customer_id, amount]
local_record_credit_payment(st, payload) ==
    IF ~HasId(st.customers, payload.customer_id) THEN Ok(st)
    ELSE LET customer == FindById(st.customers, payload.customer_id)
         IN  Ok([bumpId(st, "credit") EXCEPT !.credits =
                   Unshift(@, NewCredit(st, st.ids.credit, customer.id, customer.name,
                                        Null, payload.amount, TRUE))])

\* the charge entry linked to a sale: cr.sale_id === sale.id && !cr.is_payment
IsChargeOf(cr, saleId) == cr.sale_id = saleId /\ ~cr.is_payment

\* hasReturn: some return names the sale as its origin
hasReturn(st, sale) == Some(st.sales, LAMBDA s : s.is_return /\ s.origin_sale_id = sale.id)

\* local_update_sale without the stock check
local_update_sale_NoStockCheck(st, payload) ==
    IF ~HasId(st.sales, payload.id) THEN Ok(st)
    ELSE LET k == IndexOfId(st.sales, payload.id)
             sale == st.sales[k]
         IN  IF sale.is_return THEN Throw(st, ErrReturnImmutable)
             ELSE IF hasReturn(st, sale) THEN Throw(st, ErrSaleHasReturns)
             ELSE IF ~HasId(st.products, sale.product_id) THEN Ok(st)
             ELSE LET i == IndexOfId(st.products, sale.product_id)
                      product == st.products[i]
                      qtyDelta == payload.qty - sale.qty
                      newSale == [sale EXCEPT !.qty = payload.qty,
                                              !.unit_price = payload.unit_price,
                                              !.total_amount = payload.unit_price * payload.qty,
                                              !.customer_id = payload.customer_id,
                                              !.customer_name = CustomerNameOf(st, payload.customer_id),
                                              !.is_credit = payload.is_credit]
                      s1 == [st EXCEPT !.products[i].qty = product.qty - qtyDelta,
                                       !.sales[k] = newSale]
                      isMv(m) == m.sale_id = sale.id /\ m.kind = "OUT"
                      s2 == IF Some(s1.stock_movements, isMv)
                            THEN LET j == FindIndex(s1.stock_movements, isMv)
                                 IN  [s1 EXCEPT !.stock_movements[j].qty = newSale.qty,
                                                !.stock_movements[j].unit_price = newSale.unit_price,
                                                !.stock_movements[j].total_amount = newSale.total_amount,
                                                !.stock_movements[j].customer_id = newSale.customer_id,
                                                !.stock_movements[j].customer_name = newSale.customer_name]
                            ELSE s1
                      isCr(cr) == IsChargeOf(cr, sale.id)
                      s3 == IF newSale.is_credit
                            THEN IF Some(s2.credits, isCr)
                                 THEN LET c == FindIndex(s2.credits, isCr)
                                      IN  [s2 EXCEPT !.credits[c].amount = newSale.total_amount,
                                                     !.credits[c].customer_id =
                                                         IF newSale.customer_id # Null THEN newSale.customer_id ELSE @,
                                                     !.credits[c].customer_name =
                                                         IF newSale.customer_name # NullName THEN newSale.customer_name ELSE @]
                                 ELSE IF newSale.customer_id # Null
                                      THEN [bumpId(s2, "credit") EXCEPT !.credits =
                                               Unshift(@, NewCredit(st, s2.ids.credit, newSale.customer_id,
                                                                    IF newSale.customer_name # NullName
                                                                    THEN newSale.customer_name ELSE "",
                                                                    sale.id, newSale.total_amount, FALSE))]
                                      ELSE s2
                            ELSE [s2 EXCEPT !.credits = Filter(@, LAMBDA cr : ~isCr(cr))]
                  IN  Ok(s3)

\* payload: [id, qty, unit_price, customer_id, is_credit]
local_update_sale(st, payload) ==
    IF ~HasId(st.sales, payload.id) THEN Ok(st)
    ELSE LET k == IndexOfId(st.sales, payload.id)
             sale == st.sales[k]
         IN  IF sale.is_return THEN Throw(st, ErrReturnImmutable)
             ELSE IF hasReturn(st, sale) THEN Throw(st, ErrSaleHasReturns)
             ELSE IF ~HasId(st.products, sale.product_id) THEN Ok(st)
             ELSE LET i == IndexOfId(st.products, sale.product_id)
                      product == st.products[i]
                      qtyDelta == payload.qty - sale.qty
                      newSale == [sale EXCEPT !.qty = payload.qty,
                                              !.unit_price = payload.unit_price,
                                              !.total_amount = payload.unit_price * payload.qty,
                                              !.customer_id = payload.customer_id,
                                              !.customer_name = CustomerNameOf(st, payload.customer_id),
                                              !.is_credit = payload.is_credit]
                      s1 == [st EXCEPT !.products[i].qty = product.qty - qtyDelta,
                                       !.sales[k] = newSale]
                      isMv(m) == m.sale_id = sale.id /\ m.kind = "OUT"
                      s2 == IF Some(s1.stock_movements, isMv)
                            THEN LET j == FindIndex(s1.stock_movements, isMv)
                                 IN  [s1 EXCEPT !.stock_movements[j].qty = newSale.qty,
                                                !.stock_movements[j].unit_price = newSale.unit_price,
                                                !.stock_movements[j].total_amount = newSale.total_amount,
                                                !.stock_movements[j].customer_id = newSale.customer_id,
                                                !.stock_movements[j].customer_name = newSale.customer_name]
                            ELSE s1
                      isCr(cr) == IsChargeOf(cr, sale.id)
                      s3 == IF newSale.is_credit
                            THEN IF Some(s2.credits, isCr)
                                 THEN LET c == FindIndex(s2.credits, isCr)
                                      IN  [s2 EXCEPT !.credits[c].amount = newSale.total_amount,
                                                     !.credits[c].customer_id =
                                                         IF newSale.customer_id # Null THEN newSale.customer_id ELSE @,
                                                     !.credits[c].customer_name =
                                                         IF newSale.customer_name # NullName THEN newSale.customer_name ELSE @]
                                 ELSE IF newSale.customer_id # Null
                                      THEN [bumpId(s2, "credit") EXCEPT !.credits =
                                               Unshift(@, NewCredit(st, s2.ids.credit, newSale.customer_id,
                                                                    IF newSale.customer_name # NullName
                                                                    THEN newSale.customer_name ELSE "",
                                                                    sale.id, newSale.total_amount, FALSE))]
                                      ELSE s2
                            ELSE [s2 EXCEPT !.credits = Filter(@, LAMBDA cr : ~isCr(cr))]
                  IN  IF qtyDelta > 0 /\ product.qty < qtyDelta THEN Throw(st, ErrStockShort)
                      ELSE Ok(s3)

\* local_delete_sale that also deletes a return
local_delete_sale_NoReturnCheck(st, saleId) ==
    IF ~HasId(st.sales, saleId) THEN Ok(st)
    ELSE LET sale == FindById(st.sales, saleId)
         IN  IF hasReturn(st, sale) THEN Throw(st, ErrSaleHasReturnsDelete)
             ELSE LET s1 == IF HasId(st.products, sale.product_id)
                            THEN [st EXCEPT !.products[IndexOfId(st.products, sale.product_id)].qty = @ + sale.qty]
                            ELSE st
                  IN  Ok([s1 EXCEPT !.stock_movements = Filter(@, LAMBDA m : m.sale_id # sale.id),
                                    !.credits = Filter(@, LAMBDA cr : ~IsChargeOf(cr, sale.id)),
                                    !.sales = Filter(@, LAMBDA s : s.id # sale.id)])

\* local_delete_sale that leaves the linked stock movement behind
local_delete_sale_KeepMovement(st, saleId) ==
    IF ~HasId(st.sales, saleId) THEN Ok(st)
    ELSE LET sale == FindById(st.sales, saleId)
         IN  IF sale.is_return THEN Throw(st, ErrReturnImmutableDelete)
             ELSE IF hasReturn(st, sale) THEN Throw(st, ErrSaleHasReturnsDelete)
             ELSE LET s1 == IF HasId(st.products, sale.product_id)
                            THEN [st EXCEPT !.products[IndexOfId(st.products, sale.product_id)].qty = @ + sale.qty]
                            ELSE st
                  IN  Ok([s1 EXCEPT !.credits = Filter(@, LAMBDA cr : ~IsChargeOf(cr, sale.id)),
                                    !.sales = Filter(@, LAMBDA s : s.id # sale.id)])

\* local_delete_sale that does not put the stock back
local_delete_sale_NoRestock(st, saleId) ==
    IF ~HasId(st.sales, saleId) THEN Ok(st)
    ELSE LET sale == FindById(st.sales, saleId)
         IN  IF sale.is_return THEN Throw(st, ErrReturnImmutableDelete)
             ELSE IF hasReturn(st, sale) THEN Throw(st, ErrSaleHasReturnsDelete)
             ELSE Ok([st EXCEPT !.stock_movements = Filter(@, LAMBDA m : m.sale_id # sale.id),
                                !.credits = Filter(@, LAMBDA cr : ~IsChargeOf(cr, sale.id)),
                                !.sales = Filter(@, LAMBDA s : s.id # sale.id)])

\* a sale, its movement and its charge are removed and the stock is put back
local_delete_sale(st, saleId) ==
    IF ~HasId(st.sales, saleId) THEN Ok(st)
    ELSE LET sale == FindById(st.sales, saleId)
         IN  IF sale.is_return THEN Throw(st, ErrReturnImmutableDelete)
             ELSE IF hasReturn(st, sale) THEN Throw(st, ErrSaleHasReturnsDelete)
             ELSE LET s1 == IF HasId(st.products, sale.product_id)
                            THEN [st EXCEPT !.products[IndexOfId(st.products, sale.product_id)].qty = @ + sale.qty]
                            ELSE st
                  IN  Ok([s1 EXCEPT !.stock_movements = Filter(@, LAMBDA m : m.sale_id # sale.id),
                                    !.credits = Filter(@, LAMBDA cr : ~IsChargeOf(cr, sale.id)),
                                    !.sales = Filter(@, LAMBDA s : s.id # sale.id)])

\* local_update_return that rewrites the return's settlement entry instead of appending
local_update_return_RewritesEntry(st, payload) ==
    IF ~Some(st.sales, LAMBDA s : s.id = payload.id /\ s.is_return) THEN Ok(st)
    ELSE LET k == FindIndex(st.sales, LAMBDA s : s.id = payload.id /\ s.is_return)
             ret == st.sales[k]
         IN  IF ~HasId(st.products, ret.product_id) THEN Ok(st)
             ELSE LET i == IndexOfId(st.products, ret.product_id)
                      product == st.products[i]
                      prevTotal == ret.total_amount
                      qtyDelta == payload.qty - ret.qty
                      unit == IF payload.override_amount # Null
                              THEN Quotient(payload.override_amount, payload.qty) ELSE ret.unit_price
                      total == unit * payload.qty
                      newRet == [ret EXCEPT !.qty = payload.qty, !.unit_price = unit, !.total_amount = total]
                      s1 == [st EXCEPT !.products[i].qty = product.qty + qtyDelta,
                                       !.sales[k] = newRet]
                      isMv(m) == m.sale_id = ret.id /\ m.kind = "RETURN"
                      s2 == IF Some(s1.stock_movements, isMv)
                            THEN LET j == FindIndex(s1.stock_movements, isMv)
                                 IN  [s1 EXCEPT !.stock_movements[j].qty = newRet.qty,
                                                !.stock_movements[j].unit_price = newRet.unit_price,
                                                !.stock_movements[j].total_amount = newRet.total_amount]
                            ELSE s1
                      diff == total - prevTotal
                      isCr(cr) == cr.sale_id = ret.id /\ cr.is_payment
                      s3 == IF ret.customer_id # Null /\ diff # 0 /\ Some(s2.credits, isCr)
                            THEN [s2 EXCEPT !.credits[FindIndex(s2.credits, isCr)].amount = total]
                            ELSE s2
                  IN  Ok(s3)

\* local_update_return that records no adjustment entry
local_update_return_NoAdjustment(st, payload) ==
    IF ~Some(st.sales, LAMBDA s : s.id = payload.id /\ s.is_return) THEN Ok(st)
    ELSE LET k == FindIndex(st.sales, LAMBDA s : s.id = payload.id /\ s.is_return)
             ret == st.sales[k]
         IN  IF ~HasId(st.products, ret.product_id) THEN Ok(st)
             ELSE LET i == IndexOfId(st.products, ret.product_id)
                      product == st.products[i]
                      prevTotal == ret.total_amount
                      qtyDelta == payload.qty - ret.qty
                      unit == IF payload.override_amount # Null
                              THEN Quotient(payload.override_amount, payload.qty) ELSE ret.unit_price
                      total == unit * payload.qty
                      newRet == [ret EXCEPT !.qty = payload.qty, !.unit_price = unit, !.total_amount = total]
                      s1 == [st EXCEPT !.products[i].qty = product.qty + qtyDelta,
                                       !.sales[k] = newRet]
                      isMv(m) == m.sale_id = ret.id /\ m.kind = "RETURN"
                      s2 == IF Some(s1.stock_movements, isMv)
                            THEN LET j == FindIndex(s1.stock_movements, isMv)
                                 IN  [s1 EXCEPT !.stock_movements[j].qty = newRet.qty,
                                                !.stock_movements[j].unit_price = newRet.unit_price,
                                                !.stock_movements[j].total_amount = newRet.total_amount]
                            ELSE s1
                  IN  Ok(s2)

\* payload: [id, qty, override_amount]
local_update_return(st, payload) ==
    IF ~Some(st.sales, LAMBDA s : s.id = payload.id /\ s.is_return) THEN Ok(st)
    ELSE LET k == FindIndex(st.sales, LAMBDA s : s.id = payload.id /\ s.is_return)
             ret == st.sales[k]
         IN  IF ~HasId(st.products, ret.product_id) THEN Ok(st)
             ELSE LET i == IndexOfId(st.products, ret.product_id)
                      product == st.products[i]
                      prevTotal == ret.total_amount
                      qtyDelta == payload.qty - ret.qty
                      unit == IF payload.override_amount # Null
                              THEN Quotient(payload.override_amount, payload.qty) ELSE ret.unit_price
                      total == unit * payload.qty
                      newRet == [ret EXCEPT !.qty = payload.qty, !.unit_price = unit, !.total_amount = total]
                      s1 == [st EXCEPT !.products[i].qty = product.qty + qtyDelta,
                                       !.sales[k] = newRet]
                      isMv(m) == m.sale_id = ret.id /\ m.kind = "RETURN"
                      s2 == IF Some(s1.stock_movements, isMv)
                            THEN LET j == FindIndex(s1.stock_movements, isMv)
                                 IN  [s1 EXCEPT !.stock_movements[j].qty = newRet.qty,
                                                !.stock_movements[j].unit_price = newRet.unit_price,
                                                !.stock_movements[j].total_amount = newRet.total_amount]
                            ELSE s1
                      diff == total - prevTotal
                      s3 == IF ret.customer_id # Null /\ diff # 0
                            THEN [bumpId(s2, "credit") EXCEPT !.credits =
                                     Unshift(@, NewCredit(st, s2.ids.credit, ret.customer_id,
                                                          IF ret.customer_name # NullName THEN ret.customer_name ELSE "",
                                                          ret.id, Abs(diff), diff > 0))]
                            ELSE s2
                  IN  Ok(s3)

\* local_delete_return that does not reinstate the customer's debt
local_delete_return_NoCharge(st, returnId) ==
    IF ~Some(st.sales, LAMBDA s : s.id = returnId /\ s.is_return) THEN Ok(st)
    ELSE LET ret == st.sales[FindIndex(st.sales, LAMBDA s : s.id = returnId /\ s.is_return)]
             s1 == IF HasId(st.products, ret.product_id)
                   THEN [st EXCEPT !.products[IndexOfId(st.products, ret.product_id)].qty = Max(@ - ret.qty, 0)]
                   ELSE st
             s2 == [s1 EXCEPT !.stock_movements = Filter(@, LAMBDA m : m.sale_id # ret.id)]
         IN  Ok([s2 EXCEPT !.sales = Filter(@, LAMBDA s : s.id # ret.id)])

\* local_delete_return that removes every movement of the return's product
local_delete_return_DropsProductMovements(st, returnId) ==
    IF ~Some(st.sales, LAMBDA s : s.id = returnId /\ s.is_return) THEN Ok(st)
    ELSE LET ret == st.sales[FindIndex(st.sales, LAMBDA s : s.id = returnId /\ s.is_return)]
             s1 == IF HasId(st.products, ret.product_id)
                   THEN [st EXCEPT !.products[IndexOfId(st.products, ret.product_id)].qty = Max(@ - ret.qty, 0)]
                   ELSE st
             s2 == [s1 EXCEPT !.stock_movements = Filter(@, LAMBDA m : m.product_id # ret.product_id)]
             s3 == IF ret.customer_id # Null
                   THEN [bumpId(s2, "credit") EXCEPT !.credits =
                            Unshift(@, NewCredit(st, s2.ids.credit, ret.customer_id,
                                                 IF ret.customer_name # NullName THEN ret.customer_name ELSE "",
                                                 Null, ret.total_amount, FALSE))]
                   ELSE s2
         IN  Ok([s3 EXCEPT !.sales = Filter(@, LAMBDA s : s.id # ret.id)])

local_delete_return(st, returnId) ==
    IF ~Some(st.sales, LAMBDA s : s.id = returnId /\ s.is_return) THEN Ok(st)
    ELSE LET ret == st.sales[FindIndex(st.sales, LAMBDA s : s.id = returnId /\ s.is_return)]
             s1 == IF HasId(st.products, ret.product_id)
                   THEN [st EXCEPT !.products[IndexOfId(st.products, ret.product_id)].qty = Max(@ - ret.qty, 0)]
                   ELSE st
             s2 == [s1 EXCEPT !.stock_movements = Filter(@, LAMBDA m : m.sale_id # ret.id)]
             s3 == IF ret.customer_id # Null
                   THEN [bumpId(s2, "credit") EXCEPT !.credits =
                            Unshift(@, NewCredit(st, s2.ids.credit, ret.customer_id,
                                                 IF ret.customer_name # NullName THEN ret.customer_name ELSE "",
                                                 Null, ret.total_amount, FALSE))]
                   ELSE s2
         IN  Ok([s3 EXCEPT !.sales = Filter(@, LAMBDA s : s.id # ret.id)])

(***************************************************************************)
(* Derived views of the front end, computed from the displayed snapshot.   *)
(* The snapshot shown is always the one of the current store: runAction    *)
(* replaces it after every successful command and a failed command leaves  *)
(* both untouched.                                                         *)
(***************************************************************************)
\* the element of a non-empty sequence with the least ts (ties: the first)
MinTsIndex(s) == CHOOSE i \in 1..Len(s) :
                    /\ \A j \in 1..Len(s) : s[i].sale.ts <= s[j].sale.ts
                    /\ \A j \in 1..(i - 1) : s[j].sale.ts # s[i].sale.ts

RemoveAt(s, i) == SubSeq(s, 1, i - 1) \o SubSeq(s, i + 1, Len(s))

\* entries.sort((a, b) => (a.sale.ts > b.sale.ts ? 1 : -1)): ascending sale timestamp
RECURSIVE SortBySaleTs(_)
SortBySaleTs(s) ==
    IF Len(s) = 0 THEN <<>>
    ELSE LET i == MinTsIndex(s) IN <<s[i]>> \o SortBySaleTs(RemoveAt(s, i))

\* returnsBySale.get(sale.id) ?? 0: qty of the returns that name the sale as origin
returnsBySale(st, saleId) ==
    SumSeq(Filter(st.sales, LAMBDA s : s.is_return /\ s.origin_sale_id # Null /\ s.origin_sale_id = saleId),
           LAMBDA s : s.qty)

outstandingSaleEntries(st) ==
    LET nonReturns == Filter(st.sales, LAMBDA s : ~s.is_return)
        entries == [k \in 1..Len(nonReturns) |->
                      [sale |-> nonReturns[k],
                       returned |-> returnsBySale(st, nonReturns[k].id),
                       remaining |-> Max(nonReturns[k].qty - returnsBySale(st, nonReturns[k].id), 0)]]
    IN  SortBySaleTs(Filter(entries, LAMBDA e : e.remaining > 0))

\* keys of returnCombos: the (customer-or-walk-in, product) pairs offered for a return
ComboKeys(st) ==
    {<<e.sale.customer_id, e.sale.product_id>> : e \in Range(outstandingSaleEntries(st))}

\* returnCombos entry of a key
returnCombos(st, key) ==
    LET entries == Filter(outstandingSaleEntries(st),
                          LAMBDA e : e.sale.customer_id = key[1] /\ e.sale.product_id = key[2])
    IN  [customerId |-> key[1], productId |-> key[2],
         outstanding |-> SumSeq(entries, LAMBDA e : e.remaining),
         saleEntries |-> SortBySaleTs(entries)]

\* amount the FIFO walk of the preview gives for a requested qty
RECURSIVE ConsumeFifo(_, _)
ConsumeFifo(entries, remaining) ==
    IF Len(entries) = 0 \/ remaining <= 0 THEN 0
    ELSE LET portion == Min(Head(entries).remaining, remaining)
         IN  portion * Head(entries).sale.unit_price + ConsumeFifo(Tail(entries), remaining - portion)

previewReturnAmount(combo, qty) ==
    LET requested == Min(qty, combo.outstanding)
    IN  IF requested <= 0 THEN 0 ELSE ConsumeFifo(combo.saleEntries, requested)

\* the amount the return-qty input writes into the amount field when qty is typed
autoAmount(combo, qtyNum) ==
    SumSeq(combo.saleEntries,
           LAMBDA e : LET portion == Min(qtyNum, e.remaining)
                      IN  IF portion > 0 THEN portion * e.sale.unit_price ELSE 0)

\* the amount the form effect writes together with the default qty
defaultAmount(combo) == combo.outstanding * combo.saleEntries[1].sale.unit_price


(***************************************************************************)
(* Form inputs.  A form keeps the ids picked from its select boxes, so it  *)
(* can submit the id of a product or customer deleted in the meantime.     *)
(***************************************************************************)
ProductIds(st) == {st.products[i].id : i \in 1..Len(st.products)}

CustomerIds(st) == {st.customers[i].id : i \in 1..Len(st.customers)}

\* every product / customer id the select boxes have offered so far
OfferedProductIds(st) == 1..(st.ids.product - 1)

OfferedCustomerIds(st) == 1..(st.ids.customer - 1)

\* a quantity field: negative, zero or a positive quantity
QtyInputs == -1..MaxQty

\* the amount field of the sale form, as the unit price it stands for: empty, or price times quantity
UnitInputs == {Null} \cup (1..MaxPrice)

\* the product form in create mode
ProductCreateInputs ==
    {[name |-> n, unit_price |-> MaxPrice, initial_qty |-> q] : n \in NameSet, q \in {Null, MaxQty}}

\* the product form in edit mode, prefilled from the product: one field is changed
ProductEditInputs(product) ==
    {[id |-> product.id, name |-> n, unit_price |-> product.unit_price, qty |-> Null] : n \in NameSet}
    \cup {[id |-> product.id, name |-> product.name, unit_price |-> u, qty |-> Null] : u \in 0..MaxPrice}
    \cup {[id |-> product.id, name |-> product.name, unit_price |-> product.unit_price, qty |-> q] : q \in {0, MaxQty}}

\* the sale form with its quantity field in qtys
SaleForms(st, qtys) ==
    [product_id : OfferedProductIds(st), qty : qtys, unit : UnitInputs,
     customer_id : {Null} \cup OfferedCustomerIds(st), is_credit : BOOLEAN]

SaleFormInputs(st) == SaleForms(st, QtyInputs)

\* the stock form with its quantity field in qtys
StockForms(st, qtys) ==
    [product_id : OfferedProductIds(st), qty : qtys, kind : {"IN", "OUT"}]

StockFormInputs(st) == StockForms(st, QtyInputs)

\* the payment form with its amount field in amounts
PaymentForms(st, amounts) == [customer_id : OfferedCustomerIds(st), amount : amounts]

PaymentFormInputs(st) == PaymentForms(st, 0..MaxPay)

\* the amount field of the return form: empty, typed, or filled in by the form itself
ReturnAmountInputs(combo, qty) ==
    {Null} \cup {u * qty : u \in 0..MaxPrice}
           \cup (IF qty > 0 /\ autoAmount(combo, qty) % qty = 0 THEN {autoAmount(combo, qty)} ELSE {})
           \cup (IF qty = combo.outstanding THEN {defaultAmount(combo)} ELSE {})

\* the return form: a pair picked among the offered ones, a quantity, an amount
\* the return form of a pair with its quantity field in qtys
ReturnForms(st, key, qtys) ==
    UNION {{[key |-> key, qty |-> qty, amount |-> a] : a \in ReturnAmountInputs(returnCombos(st, key), qty)}
           : qty \in qtys}

ReturnFormInputs(st) ==
    UNION {ReturnForms(st, key, QtyInputs \cup {returnCombos(st, key).outstanding}) : key \in ComboKeys(st)}

\* the sale-edit dialog of a sale row: the unit price is the sale's
SaleEditForms(st, sale, qtys) ==
    [id : {sale.id}, qty : qtys, unit_price : {sale.unit_price},
     customer_id : {Null, sale.customer_id} \cup CustomerIds(st), is_credit : BOOLEAN]

SaleEditInputs(st, sale) == SaleEditForms(st, sale, QtyInputs)

\* the return-edit dialog of a return row: the amount field is always sent
ReturnEditForms(ret, qtys) ==
    {[id |-> ret.id, qty |-> q, amount |-> u * q] : q \in qtys, u \in 0..MaxPrice}

ReturnEditInputs(ret) == ReturnEditForms(ret, QtyInputs)

(***************************************************************************)
(* Form handlers: validation, then the command.                            *)
(***************************************************************************)
\* handleProductSubmit, create mode
handleProductCreate(st, form) == local_create_product(st, form)

\* handleProductSubmit, edit mode: update_product, then a stock entry for the qty difference
handleProductEdit(st, form) ==
    LET r1 == local_update_product(st, [id |-> form.id, name |-> form.name, unit_price |-> form.unit_price])
    IN  IF form.qty # Null /\ HasId(st.products, form.id)
           /\ form.qty - FindById(st.products, form.id).qty # 0
        THEN LET diff == form.qty - FindById(st.products, form.id).qty
             IN  local_record_stock_entry(r1.st,
                     [product_id |-> form.id, qty |-> Abs(diff),
                      kind |-> IF diff > 0 THEN "IN" ELSE "OUT",
                      unit_price |-> Null, customer_id |-> Null])
        ELSE r1

\* handleSaleSubmit that lets a credit sale without a customer through
handleSaleSubmit_NoCreditCheck(st, form) ==
    IF form.qty <= 0 THEN Throw(st, ErrQtyPositive)
    ELSE local_record_sale(st,
             [product_id |-> form.product_id, qty |-> form.qty,
              unit_price |-> IF form.unit # Null THEN Quotient(form.unit * form.qty, form.qty) ELSE Null,
              customer_id |-> form.customer_id, is_credit |-> form.is_credit])

handleSaleSubmit(st, form) ==
    IF form.qty <= 0 THEN Throw(st, ErrQtyPositive)
    ELSE IF form.is_credit /\ form.customer_id = Null THEN Throw(st, ErrCreditNeedsCustomer)
    ELSE local_record_sale(st,
             [product_id |-> form.product_id, qty |-> form.qty,
              unit_price |-> IF form.unit # Null THEN Quotient(form.unit * form.qty, form.qty) ELSE Null,
              customer_id |-> form.customer_id, is_credit |-> form.is_credit])

\* handleReturnSubmit that sends a return of qty 0 to the store
handleReturnSubmit_NoZeroCase(st, form) ==
    LET combo == returnCombos(st, form.key)
    IN  IF form.qty < 0 THEN Throw(st, ErrReturnQtyNegative)
        ELSE IF form.qty > combo.outstanding THEN Throw(st, ErrOverReturn)
        ELSE local_record_return(st,
                 [product_id |-> combo.productId, customer_id |-> combo.customerId,
                  qty |-> form.qty, override_amount |-> form.amount])

handleReturnSubmit(st, form) ==
    LET combo == returnCombos(st, form.key)
    IN  IF form.qty < 0 THEN Throw(st, ErrReturnQtyNegative)
        ELSE IF form.qty = 0 THEN Ok(st)
        ELSE IF form.qty > combo.outstanding THEN Throw(st, ErrOverReturn)
        ELSE local_record_return(st,
                 [product_id |-> combo.productId, customer_id |-> combo.customerId,
                  qty |-> form.qty, override_amount |-> form.amount])

handleStockSubmit(st, form) ==
    IF form.qty <= 0 THEN Throw(st, ErrQtyPositive)
    ELSE local_record_stock_entry(st,
             [product_id |-> form.product_id, qty |-> form.qty, kind |-> form.kind,
              unit_price |-> Null, customer_id |-> Null])

\* handlePaymentSubmit that sends any amount to the store
handlePaymentSubmit_NoAmountCheck(st, form) ==
    local_record_credit_payment(st, [customer_id |-> form.customer_id, amount |-> form.amount])

handlePaymentSubmit(st, form) ==
    IF form.amount <= 0 THEN Throw(st, ErrPayAmount)
    ELSE local_record_credit_payment(st, [customer_id |-> form.customer_id, amount |-> form.amount])

saleEditSubmit(st, form) ==
    IF form.qty <= 0 THEN Throw(st, ErrQtyPositive)
    ELSE local_update_sale(st, [id |-> form.id, qty |-> form.qty, unit_price |-> form.unit_price,
                                customer_id |-> form.customer_id, is_credit |-> form.is_credit])

returnEditSubmit(st, form) ==
    IF form.qty <= 0 THEN Throw(st, ErrReturnEditQty)
    ELSE local_update_return(st, [id |-> form.id, qty |-> form.qty, override_amount |-> form.amount])

(***************************************************************************)
(* Balance engine.                                                         *)
(***************************************************************************)
\* the balance row computeBalances starts every customer with
EmptyBalance(c) ==
    [customer_id |-> c.id, customer_name |-> c.name, total_credit |-> 0, total_paid |-> 0,
     outstanding |-> 0, last_activity |-> Null]

\* state.credits.forEach: add one entry to the row of its customer, if there is one
AddCredit(map, cr) ==
    IF cr.customer_id \notin DOMAIN map THEN map
    ELSE LET row == map[cr.customer_id]
             r1 == IF cr.is_payment THEN [row EXCEPT !.total_paid = @ + cr.amount]
                                    ELSE [row EXCEPT !.total_credit = @ + cr.amount]
             r2 == IF r1.last_activity = Null \/ r1.last_activity < cr.ts
                   THEN [r1 EXCEPT !.last_activity = cr.ts] ELSE r1
         IN  [map EXCEPT ![cr.customer_id] = r2]

RECURSIVE FoldCredits(_, _)
FoldCredits(map, crs) == IF Len(crs) = 0 THEN map ELSE FoldCredits(AddCredit(map, Head(crs)), Tail(crs))

\* computeBalances without the floor of the outstanding amount
computeBalances_NoFloor(st) ==
    LET init == [cid \in CustomerIds(st) |-> EmptyBalance(FindById(st.customers, cid))]
        summed == FoldCredits(init, st.credits)
    IN  [cid \in CustomerIds(st) |->
            [summed[cid] EXCEPT !.outstanding = summed[cid].total_credit - summed[cid].total_paid]]

\* computeBalances: customer id -> balance row
computeBalances(st) ==
    LET init == [cid \in CustomerIds(st) |-> EmptyBalance(FindById(st.customers, cid))]
        summed == FoldCredits(init, st.credits)
    IN  [cid \in CustomerIds(st) |->
            [summed[cid] EXCEPT !.outstanding = Max(summed[cid].total_credit - summed[cid].total_paid, 0)]]

\* [...credits].sort by (ts, id) ascending: the index of the least entry
MinCreditIndex(s) == CHOOSE i \in 1..Len(s) :
                        \A j \in 1..Len(s) :
                            \/ s[i].ts < s[j].ts
                            \/ (s[i].ts = s[j].ts /\ s[i].id <= s[j].id)

RECURSIVE SortCredits(_)
SortCredits(s) ==
    IF Len(s) = 0 THEN <<>>
    ELSE LET i == MinCreditIndex(s)
         IN  <<s[i]>> \o SortCredits(SubSeq(s, 1, i - 1) \o SubSeq(s, i + 1, Len(s)))

\* one step of the running balance without the floor
applyEntry_NoFloor(outstanding, e) ==
    IF e.is_payment THEN outstanding - e.amount ELSE outstanding + e.amount

\* one step of the running balance: a payment subtracts (floored at 0), a charge adds
applyEntry(outstanding, e) ==
    IF e.is_payment THEN Max(outstanding - e.amount, 0) ELSE outstanding + e.amount

RECURSIVE foldEntries(_, _)
foldEntries(outstanding, entries) ==
    IF Len(entries) = 0 THEN outstanding
    ELSE foldEntries(applyEntry(outstanding, Head(entries)), Tail(entries))

\* creditOutstandingById of the customer's latest entry (0 without entries)
runningBalance(st, cid) ==
    foldEntries(0, Filter(SortCredits(st.credits), LAMBDA cr : cr.customer_id = cid))

\* byCustomer.get(cid): the customer's entries in (ts, id) ascending order
byCustomer(st, cid) == Filter(SortCredits(st.credits), LAMBDA cr : cr.customer_id = cid)

\* the loop of creditOutstandingById over one customer's entries: map.set(e.id, outstanding)
\* after the entry was applied
RECURSIVE walkAfter(_, _, _)
walkAfter(map, outstanding, entries) ==
    IF Len(entries) = 0 THEN map
    ELSE LET next == applyEntry(outstanding, Head(entries))
         IN  walkAfter([id \in DOMAIN map \cup {Head(entries).id} |->
                            IF id = Head(entries).id THEN next ELSE map[id]],
                       next, Tail(entries))

\* the loop of creditOutstandingBeforeById: map.set(e.id, outstanding) before the entry is applied
RECURSIVE walkBefore(_, _, _)
walkBefore(map, outstanding, entries) ==
    IF Len(entries) = 0 THEN map
    ELSE walkBefore([id \in DOMAIN map \cup {Head(entries).id} |->
                         IF id = Head(entries).id THEN outstanding ELSE map[id]],
                    applyEntry(outstanding, Head(entries)), Tail(entries))

\* entry id -> outstanding of its customer right after the entry
creditOutstandingById(st) ==
    [id \in {st.credits[k].id : k \in 1..Len(st.credits)} |->
        walkAfter(<<>>, 0, byCustomer(st, FindById(st.credits, id).customer_id))[id]]

\* entry id -> outstanding of its customer right before the entry
creditOutstandingBeforeById(st) ==
    [id \in {st.credits[k].id : k \in 1..Len(st.credits)} |->
        walkBefore(<<>>, 0, byCustomer(st, FindById(st.credits, id).customer_id))[id]]

(***************************************************************************)
(* materialize: the snapshot a successful operation returns.               *)
(***************************************************************************)
\* the indices of keys, least key first
RECURSIVE DescOrderOf_Ascending(_, _)
DescOrderOf_Ascending(keys, idxs) ==
    IF idxs = {} THEN <<>>
    ELSE LET i == CHOOSE i \in idxs : \A j \in idxs : keys[i] < keys[j] \/ (keys[i] = keys[j] /\ i <= j)
         IN  <<i>> \o DescOrderOf_Ascending(keys, idxs \ {i})

\* [...xs].sort((a, b) => (a.key < b.key ? 1 : -1)): the indices of keys, greatest key
\* first (equal keys in stored order)
RECURSIVE DescOrderOf(_, _)
DescOrderOf(keys, idxs) ==
    IF idxs = {} THEN <<>>
    ELSE LET i == CHOOSE i \in idxs : \A j \in idxs : keys[i] > keys[j] \/ (keys[i] = keys[j] /\ i <= j)
         IN  <<i>> \o DescOrderOf(keys, idxs \ {i})

\* a sequence rearranged by the order of its keys
SortDesc(s, keys) == [k \in 1..Len(s) |-> s[DescOrderOf(keys, 1..Len(s))[k]]]

materialize(st) ==
    [products |-> SortDesc(st.products, [i \in 1..Len(st.products) |-> st.products[i].created_at]),
     customers |-> SortDesc(st.customers, [i \in 1..Len(st.customers) |-> st.customers[i].created_at]),
     sales |-> SortDesc(st.sales, [i \in 1..Len(st.sales) |-> st.sales[i].ts]),
     stock_movements |-> SortDesc(st.stock_movements,
                                  [i \in 1..Len(st.stock_movements) |-> st.stock_movements[i].ts]),
     credits |-> SortDesc(st.credits, [i \in 1..Len(st.credits) |-> st.credits[i].ts]),
     customer_balances |-> computeBalances(st)]

\* the store the next command loads: the clock has moved on if the command changed the store
Saved(st, res) == IF res.st = st THEN st ELSE [res.st EXCEPT !.clock = @ + 1]

(***************************************************************************)
(* runAction: the command's store becomes the current store.  A rejected   *)
(* command leaves the store as the command left it in localStorage.        *)
(***************************************************************************)
runAction(res) ==
    IF res.st = Store THEN UNCHANGED vars
    ELSE /\ products' = res.st.products
         /\ customers' = res.st.customers
         /\ sales' = res.st.sales
         /\ stock_movements' = res.st.stock_movements
         /\ credits' = res.st.credits
         /\ ids' = res.st.ids
         /\ clock' = clock + 1

(***************************************************************************)
(* What the user sees: the displayed snapshot, the error banner and the    *)
(* loading flag, and whether a form still holds what was typed.            *)
(***************************************************************************)
\* the display between two commands: the snapshot of the store, no command running
viewOf(st) == [data |-> materialize(st), error |-> NoError, loading |-> FALSE]

\* runAction on the display: a snapshot replaces data, a thrown error sets the banner and
\* leaves data alone; loading is reset either way
runActionView(view, res) ==
    IF res.err = NoError
    THEN [data |-> materialize(res.st), error |-> NoError, loading |-> FALSE]
    ELSE [data |-> view.data, error |-> res.err, loading |-> FALSE]

\* "if (result) setXForm(createEmptyXForm())": the form keeps its fields unless the
\* command returned a snapshot
saleFormKept(st, form) == handleSaleSubmit(st, form).err # NoError

\* the return form is also emptied by a qty of 0
returnFormKept(st, form) == form.qty # 0 /\ handleReturnSubmit(st, form).err # NoError

paymentFormKept(st, form) == handlePaymentSubmit(st, form).err # NoError

\* the edit dialogs: "await runAction(...); setSaleEdit(null)" inside a try block, and
\* runAction catches every error itself, so only the qty check keeps the dialog open
saleEditKept(st, form) == form.qty <= 0

returnEditKept(st, form) == form.qty <= 0

\* the model follows the first MaxOps commands that change the store
Running == clock <= MaxOps

ProductCreate ==
    /\ Running
    /\ \E form \in ProductCreateInputs : runAction(handleProductCreate(Store, form))

ProductEdit ==
    /\ Running
    /\ \E i \in 1..Len(products) : \E form \in ProductEditInputs(products[i]) :
           runAction(handleProductEdit(Store, form))

confirmProductDelete ==
    /\ Running
    /\ \E id \in ProductIds(Store) : runAction(local_delete_product(Store, id))

CustomerCreate ==
    /\ Running
    /\ \E n \in NameSet : runAction(local_create_customer(Store, [name |-> n]))

CustomerEdit ==
    /\ Running
    /\ \E id \in CustomerIds(Store), n \in NameSet : runAction(local_update_customer(Store, [id |-> id, name |-> n]))

handleCustomerDelete ==
    /\ Running
    /\ \E id \in CustomerIds(Store) : runAction(local_delete_customer(Store, id))

SaleSubmit ==
    /\ Running
    /\ \E form \in SaleFormInputs(Store) : runAction(handleSaleSubmit(Store, form))

ReturnSubmit ==
    /\ Running
    /\ \E form \in ReturnFormInputs(Store) : runAction(handleReturnSubmit(Store, form))

StockSubmit ==
    /\ Running
    /\ \E form \in StockFormInputs(Store) : runAction(handleStockSubmit(Store, form))

PaymentSubmit ==
    /\ Running
    /\ \E form \in PaymentFormInputs(Store) : runAction(handlePaymentSubmit(Store, form))

SaleEdit ==
    /\ Running
    /\ \E k \in 1..Len(sales) :
           /\ ~sales[k].is_return
           /\ \E form \in SaleEditInputs(Store, sales[k]) : runAction(saleEditSubmit(Store, form))

confirmSaleDelete ==
    /\ Running
    /\ \E k \in 1..Len(sales) :
           /\ ~sales[k].is_return
           /\ runAction(local_delete_sale(Store, sales[k].id))

ReturnEdit ==
    /\ Running
    /\ \E k \in 1..Len(sales) :
           /\ sales[k].is_return
           /\ \E form \in ReturnEditInputs(sales[k]) : runAction(returnEditSubmit(Store, form))

confirmReturnDelete ==
    /\ Running
    /\ \E k \in 1..Len(sales) :
           /\ sales[k].is_return
           /\ runAction(local_delete_return(Store, sales[k].id))

Next ==
    \/ ProductCreate
    \/ ProductEdit
    \/ confirmProductDelete
    \/ CustomerCreate
    \/ CustomerEdit
    \/ handleCustomerDelete
    \/ SaleSubmit
    \/ ReturnSubmit
    \/ StockSubmit
    \/ PaymentSubmit
    \/ SaleEdit
    \/ confirmSaleDelete
    \/ ReturnEdit
    \/ confirmReturnDelete

Spec == Init /\ [][Next]_vars

(***************************************************************************)
(* A shop that has created one product of its own and from then on only    *)
(* records sales and stock entries.                                        *)
(***************************************************************************)
InitStockOnly ==
    \E form \in ProductCreateInputs :
        LET st == Saved(loadState, handleProductCreate(loadState, form))
        IN  /\ products = st.products
            /\ customers = st.customers
            /\ sales = st.sales
            /\ stock_movements = st.stock_movements
            /\ credits = st.credits
            /\ ids = st.ids
            /\ clock = st.clock

NextStockOnly ==
    \/ SaleSubmit
    \/ StockSubmit

SpecStockOnly == InitStockOnly /\ [][NextStockOnly]_vars

(***************************************************************************)
(* Properties.                                                             *)
(***************************************************************************)
\* the (customer-or-walk-in, product) pairs of the recorded sales and returns
Pairs(st) == {<<st.sales[k].customer_id, st.sales[k].product_id>> : k \in 1..Len(st.sales)}

OfPair(s, pair) == s.customer_id = pair[1] /\ s.product_id = pair[2]

\* quantity sold to / returned by a pair
SoldQty(st, pair) == SumSeq(Filter(st.sales, LAMBDA s : ~s.is_return /\ OfPair(s, pair)), LAMBDA s : s.qty)

ReturnedQty(st, pair) == SumSeq(Filter(st.sales, LAMBDA s : s.is_return /\ OfPair(s, pair)), LAMBDA s : s.qty)

\* allocatable remainder of a pair: sold and not yet returned
Remainder(st, pair) == SoldQty(st, pair) - ReturnedQty(st, pair)

\* C1: every product's qty is >= 0 after any sequence of commands
C1_StockNonNegative == \A i \in 1..Len(products) : products[i].qty >= 0

\* C2: for every (customer-or-walk-in, product) pair the returned quantity is at most the sold quantity
C2_NoOverReturn == \A pair \in Pairs(Store) : ReturnedQty(Store, pair) <= SoldQty(Store, pair)

\* C3: a return of more than the allocatable remainder of its pair is rejected with
\* OverReturn and leaves the store unchanged
C3_OverReturnRejected ==
    \A form \in ReturnFormInputs(Store) :
        form.qty > Remainder(Store, form.key) =>
            /\ handleReturnSubmit(Store, form).err = ErrOverReturn
            /\ handleReturnSubmit(Store, form).st = Store

\* the non-return sales of a pair, oldest first, each with its full quantity to consume
PairSalesOldestFirst(st, pair) ==
    LET own == Filter(st.sales, LAMBDA s : ~s.is_return /\ OfPair(s, pair))
    IN  SortBySaleTs([k \in 1..Len(own) |-> [sale |-> own[k], remaining |-> own[k].qty]])

\* amount of the units n+1 .. n+q of a pair, each unit priced by the sale it is taken from
FifoAmount(st, pair, n, q) ==
    ConsumeFifo(PairSalesOldestFirst(st, pair), n + q) - ConsumeFifo(PairSalesOldestFirst(st, pair), n)

\* the amounts the return form holds when the user typed none
UntypedAmounts(combo, qty) ==
    {Null} \cup {autoAmount(combo, qty)}
           \cup (IF qty = combo.outstanding THEN {defaultAmount(combo)} ELSE {})

\* C4: a return of qty q within the remainder and without a typed amount records the
\* oldest-sale-first amount: the sum of portion x unit price of the sales it consumes
C4_ReturnFifoAmount ==
    \A form \in ReturnFormInputs(Store) :
        LET res == handleReturnSubmit(Store, form)
        IN  (/\ form.qty > 0
             /\ form.qty <= Remainder(Store, form.key)
             /\ form.amount \in UntypedAmounts(returnCombos(Store, form.key), form.qty)
             /\ res.err = NoError)
            => Head(res.st.sales).total_amount
                   = FifoAmount(Store, form.key, ReturnedQty(Store, form.key), form.qty)

\* charges / payments of a customer, summed over the stored credit entries
ChargesOf(st, cid) ==
    SumSeq(Filter(st.credits, LAMBDA cr : cr.customer_id = cid /\ ~cr.is_payment), LAMBDA cr : cr.amount)

PaymentsOf(st, cid) ==
    SumSeq(Filter(st.credits, LAMBDA cr : cr.customer_id = cid /\ cr.is_payment), LAMBDA cr : cr.amount)

\* C5: the snapshot has one balance row per customer, with total_credit the sum of the
\* customer's charges, total_paid the sum of the customer's payments and
\* outstanding = max(total_credit - total_paid, 0) >= 0
C5_BalanceFormula ==
    /\ DOMAIN computeBalances(Store) = CustomerIds(Store)
    /\ \A cid \in CustomerIds(Store) :
          LET row == computeBalances(Store)[cid]
          IN  /\ row.total_credit = ChargesOf(Store, cid)
              /\ row.total_paid = PaymentsOf(Store, cid)
              /\ row.outstanding = Max(ChargesOf(Store, cid) - PaymentsOf(Store, cid), 0)
              /\ row.outstanding >= 0

\* a customer whose payments exceed the charges: the floor of the balance is at work
C5_Witness ==
    \E cid \in CustomerIds(Store) :
        /\ PaymentsOf(Store, cid) > ChargesOf(Store, cid)
        /\ ChargesOf(Store, cid) > 0
        /\ computeBalances(Store)[cid].outstanding = 0

\* C6: the outstanding of the snapshot is the last value of the running balance of the
\* customer's entries in (timestamp, id) order
C6_BalanceIsFoldTerminal ==
    \A cid \in CustomerIds(Store) :
        computeBalances(Store)[cid].outstanding = runningBalance(Store, cid)

\* C7: a credit sale has exactly one linked charge entry, of the sale's total; a
\* non-credit sale has none
C7_CreditSaleHasCharge ==
    \A k \in 1..Len(sales) :
        ~sales[k].is_return =>
            LET linked == Filter(credits, LAMBDA cr : IsChargeOf(cr, sales[k].id))
            IN  IF sales[k].is_credit
                THEN Len(linked) = 1 /\ linked[1].amount = sales[k].total_amount
                ELSE Len(linked) = 0

\* C8: a movement with a sale_id mirrors qty, unit price and total of an existing sale
\* or return, and every sale / return has exactly one linked movement of its kind
C8_MovementMirrorsSale ==
    /\ \A j \in 1..Len(stock_movements) :
          stock_movements[j].sale_id # Null =>
              /\ HasId(sales, stock_movements[j].sale_id)
              /\ LET s == FindById(sales, stock_movements[j].sale_id)
                 IN  /\ stock_movements[j].qty = s.qty
                     /\ stock_movements[j].unit_price = s.unit_price
                     /\ stock_movements[j].total_amount = s.total_amount
    /\ \A k \in 1..Len(sales) :
          LET linked == Filter(stock_movements, LAMBDA m : m.sale_id = sales[k].id)
          IN  /\ Len(linked) = 1
              /\ linked[1].kind = IF sales[k].is_return THEN "RETURN" ELSE "OUT"

\* the seed sale and a return were both edited after they were recorded: the return
\* carries an adjustment entry next to its settlement entry
C8_Witness ==
    /\ \E k \in 1..Len(sales) :
          /\ sales[k].is_return
          /\ Len(Filter(credits, LAMBDA cr : cr.sale_id = sales[k].id)) = 2
    /\ \E k \in 1..Len(sales) : ~sales[k].is_return /\ sales[k].id = 1 /\ sales[k].qty # SeedSaleQty

\* every command a form can issue in a store, with the store a rejected one leaves behind
RejectedLeaves(st) ==
    {handleProductCreate(st, f).st : f \in {g \in ProductCreateInputs : handleProductCreate(st, g).err # NoError}}
    \cup UNION {{handleProductEdit(st, f).st :
                    f \in {g \in ProductEditInputs(st.products[i]) : handleProductEdit(st, g).err # NoError}}
                : i \in 1..Len(st.products)}
    \cup {local_delete_product(st, id).st : id \in {x \in ProductIds(st) : local_delete_product(st, x).err # NoError}}
    \cup {local_delete_customer(st, id).st : id \in {x \in CustomerIds(st) : local_delete_customer(st, x).err # NoError}}
    \cup {handleSaleSubmit(st, f).st : f \in {g \in SaleFormInputs(st) : handleSaleSubmit(st, g).err # NoError}}
    \cup {handleReturnSubmit(st, f).st : f \in {g \in ReturnFormInputs(st) : handleReturnSubmit(st, g).err # NoError}}
    \cup {handleStockSubmit(st, f).st : f \in {g \in StockFormInputs(st) : handleStockSubmit(st, g).err # NoError}}
    \cup {handlePaymentSubmit(st, f).st : f \in {g \in PaymentFormInputs(st) : handlePaymentSubmit(st, g).err # NoError}}
    \cup UNION {IF st.sales[k].is_return
                THEN {returnEditSubmit(st, f).st :
                         f \in {g \in ReturnEditInputs(st.sales[k]) : returnEditSubmit(st, g).err # NoError}}
                     \cup (IF local_delete_return(st, st.sales[k].id).err # NoError
                           THEN {local_delete_return(st, st.sales[k].id).st} ELSE {})
                ELSE {saleEditSubmit(st, f).st :
                         f \in {g \in SaleEditInputs(st, st.sales[k]) : saleEditSubmit(st, g).err # NoError}}
                     \cup (IF local_delete_sale(st, st.sales[k].id).err # NoError
                           THEN {local_delete_sale(st, st.sales[k].id).st} ELSE {})
                : k \in 1..Len(st.sales)}

\* C9: a rejected command leaves products, customers, sales, stock movements, credit
\* entries and the id counters as they were
C9_RejectedLeavesStore == \A left \in RejectedLeaves(Store) : left = Store

\* quantity of a sale consumed by the returns of its pair, allocated oldest sale first
ConsumedByReturns(st, sale) ==
    LET pair == <<sale.customer_id, sale.product_id>>
        earlier == SumSeq(Filter(st.sales, LAMBDA s : ~s.is_return /\ OfPair(s, pair) /\ s.ts < sale.ts),
                          LAMBDA s : s.qty)
    IN  Min(sale.qty, Max(ReturnedQty(st, pair) - earlier, 0))

\* C10: deleting a sale, or reducing it below the quantity its pair's returns consume,
\* fails with SaleHasReturns exactly while a return consumes part of the sale
C10_SaleGuardedByReturns ==
    \A k \in 1..Len(sales) :
        ~sales[k].is_return =>
            LET consumed == ConsumedByReturns(Store, sales[k])
            IN  /\ (local_delete_sale(Store, sales[k].id).err = ErrSaleHasReturnsDelete) <=> (consumed > 0)
                /\ \A form \in SaleEditInputs(Store, sales[k]) :
                      (form.qty > 0 /\ form.qty < consumed)
                          => saleEditSubmit(Store, form).err = ErrSaleHasReturns
                /\ \A form \in SaleEditInputs(Store, sales[k]) :
                      consumed = 0 => saleEditSubmit(Store, form).err # ErrSaleHasReturns

\* outstanding of a customer in the balance rows of a store
outstandingOf(st, cid) == computeBalances(st)[cid].outstanding

\* C11: with outstanding(C) = 0, stock of P >= q and nothing left to return for (C, P), a
\* credit sale of q at u makes outstanding(C) = q * u; the return of q without an amount
\* restores the stock of P and outstanding(C) = 0, and every further return of a positive
\* qty for (C, P) is rejected as an over-return
C11_CreditSaleThenFullReturn ==
    \A cid \in CustomerIds(Store) : \A i \in 1..Len(products) : \A q \in 1..MaxQty : \A u \in 1..MaxPrice :
        LET pid == products[i].id
            key == <<cid, pid>>
            sale == handleSaleSubmit(Store, [product_id |-> pid, qty |-> q, unit |-> u,
                                             customer_id |-> cid, is_credit |-> TRUE])
            s1 == Saved(Store, sale)
            ret == handleReturnSubmit(s1, [key |-> key, qty |-> q, amount |-> Null])
            s2 == Saved(s1, ret)
        IN  (/\ outstandingOf(Store, cid) = 0
             /\ products[i].qty >= q
             /\ Remainder(Store, key) = 0)
            => /\ sale.err = NoError
               /\ outstandingOf(s1, cid) = q * u
               /\ ret.err = NoError
               /\ FindById(s2.products, pid).qty = products[i].qty
               /\ outstandingOf(s2, cid) = 0
               /\ \A f \in ReturnFormInputs(s2) :
                     (f.key = key /\ f.qty > 0) => handleReturnSubmit(s2, f).err = ErrOverReturn

\* quantity of a product in a store
qtyOf(st, pid) == FindById(st.products, pid).qty

\* what the movements of a product add up to: receipts and returns less issues
NetMovement(st, pid) ==
    SumSeq(Filter(st.stock_movements, LAMBDA m : m.product_id = pid),
           LAMBDA m : IF m.kind = "OUT" THEN 0 - m.qty ELSE m.qty)

\* C12: a sale and a stock issue are never rejected for lack of stock: the product's qty
\* becomes max(qty - q, 0); a stock receipt makes it qty + q; over sales and stock entries
\* alone no qty goes below 0, and a receipt of q1 followed by an issue of q2 > q1 takes a
\* product from 0 back to 0
C12_SaleAndStockOutFloor ==
    /\ \A i \in 1..Len(products) : products[i].qty >= 0
    /\ \A form \in StockFormInputs(Store) :
          (form.qty > 0 /\ HasId(products, form.product_id)) =>
              LET before == qtyOf(Store, form.product_id)
                  res == handleStockSubmit(Store, form)
                  after == qtyOf(res.st, form.product_id)
              IN  /\ res.err = NoError
                  /\ after = IF form.kind = "IN" THEN before + form.qty ELSE Max(before - form.qty, 0)
    /\ \A form \in SaleFormInputs(Store) :
          (/\ form.qty > 0
           /\ HasId(products, form.product_id)
           /\ form.is_credit => HasId(customers, form.customer_id)) =>
              LET before == qtyOf(Store, form.product_id)
                  res == handleSaleSubmit(Store, form)
                  after == qtyOf(res.st, form.product_id)
              IN  /\ res.err = NoError
                  /\ after = Max(before - form.qty, 0)
    /\ \A i \in 1..Len(products) : \A q1 \in 1..MaxQty : \A q2 \in 1..MaxQty :
          (products[i].qty = 0 /\ q2 > q1) =>
              LET pid == products[i].id
                  s1 == Saved(Store, handleStockSubmit(Store, [product_id |-> pid, qty |-> q1, kind |-> "IN"]))
                  s2 == Saved(s1, handleStockSubmit(s1, [product_id |-> pid, qty |-> q2, kind |-> "OUT"]))
              IN  qtyOf(s1, pid) = q1 /\ qtyOf(s2, pid) = 0

\* a product created by the form stands at 0 although more was issued than received
C12_Witness ==
    \E i \in 1..Len(products) :
        /\ products[i].id >= loadState.ids.product
        /\ products[i].qty = 0
        /\ NetMovement(Store, products[i].id) < 0

\* C13: update_sale and delete_sale of a record that is a return fail as "a return cannot
\* be edited / deleted as a sale" and leave the store as it was
C13_ReturnImmutable ==
    \A k \in 1..Len(sales) :
        sales[k].is_return =>
            /\ \A form \in SaleEditInputs(Store, sales[k]) :
                  LET res == local_update_sale(Store, [id |-> form.id, qty |-> form.qty,
                                                       unit_price |-> form.unit_price,
                                                       customer_id |-> form.customer_id,
                                                       is_credit |-> form.is_credit])
                  IN  res.err = ErrReturnImmutable /\ res.st = Store
            /\ local_delete_sale(Store, sales[k].id).err = ErrReturnImmutableDelete
            /\ local_delete_sale(Store, sales[k].id).st = Store

\* a return of a customer is on record, with its movement and its settlement entry
C13_Witness ==
    \E k \in 1..Len(sales) :
        /\ sales[k].is_return
        /\ sales[k].customer_id # Null
        /\ \E j \in 1..Len(stock_movements) : stock_movements[j].sale_id = sales[k].id
        /\ \E c \in 1..Len(credits) : credits[c].sale_id = sales[k].id /\ credits[c].is_payment

\* ids that resolve to no record: those of deleted records and the next one to be assigned
UnknownProductIds(st) == (1..st.ids.product) \ ProductIds(st)

UnknownCustomerIds(st) == (1..st.ids.customer) \ CustomerIds(st)

UnknownSaleIds(st) == (1..st.ids.sale) \ {st.sales[k].id : k \in 1..Len(st.sales)}

\* C14: an operation given an id that does not resolve returns a failure, never a snapshot
C14_UnknownIdFails ==
    /\ \A pid \in UnknownProductIds(Store) :
          /\ local_record_sale(Store, [product_id |-> pid, qty |-> 1, unit_price |-> Null,
                                       customer_id |-> Null, is_credit |-> FALSE]).err # NoError
          /\ local_record_return(Store, [product_id |-> pid, customer_id |-> Null, qty |-> 1,
                                         override_amount |-> Null]).err # NoError
          /\ local_record_stock_entry(Store, [product_id |-> pid, qty |-> 1, kind |-> "IN",
                                              unit_price |-> Null, customer_id |-> Null]).err # NoError
    /\ \A cid \in UnknownCustomerIds(Store) :
          local_record_credit_payment(Store, [customer_id |-> cid, amount |-> 1]).err # NoError
    /\ \A sid \in UnknownSaleIds(Store) :
          /\ local_update_sale(Store, [id |-> sid, qty |-> 1, unit_price |-> 1,
                                       customer_id |-> Null, is_credit |-> FALSE]).err # NoError
          /\ local_delete_sale(Store, sid).err # NoError
          /\ local_update_return(Store, [id |-> sid, qty |-> 1, override_amount |-> Null]).err # NoError
          /\ local_delete_return(Store, sid).err # NoError

\* the sale form with the credit box ticked and no customer picked
CreditFormsWithoutCustomer(st) ==
    [product_id : OfferedProductIds(st), qty : QtyInputs, unit : UnitInputs,
     customer_id : {Null}, is_credit : {TRUE}]

\* C15: a credit sale submitted without a customer is rejected as "credit sale needs a
\* customer" (a qty <= 0 is reported first): no sale, movement or credit entry is created
\* and no qty changes, so the sale form records no credit sale without a customer
C15_CreditSaleNeedsCustomer ==
    /\ CreditFormsWithoutCustomer(Store) \subseteq SaleFormInputs(Store)
    /\ \A form \in CreditFormsWithoutCustomer(Store) :
          /\ handleSaleSubmit(Store, form).st = Store
          /\ handleSaleSubmit(Store, form).err =
                 IF form.qty > 0 THEN ErrCreditNeedsCustomer ELSE ErrQtyPositive

\* the latest record is a cash sale without a customer, made while a customer exists: the
\* sale form went through with the customer left empty
C15_Witness ==
    /\ Len(sales) > 0
    /\ ~Head(sales).is_return
    /\ Head(sales).id >= loadState.ids.sale
    /\ Head(sales).customer_id = Null
    /\ ~Head(sales).is_credit
    /\ Len(customers) > 0
    /\ \A c \in 1..Len(credits) : credits[c].sale_id # Head(sales).id

\* C16: a return of qty 0 is accepted without an error and changes nothing: no sale row,
\* movement or credit entry, no id, no product qty and no balance
C16_ZeroReturnNoOp ==
    \A key \in ComboKeys(Store) : \A form \in ReturnForms(Store, key, {0}) :
        /\ handleReturnSubmit(Store, form).err = NoError
        /\ handleReturnSubmit(Store, form).st = Store

\* a walk-in return is on record and the return form still offers a pair: it can be
\* submitted with qty 0
C16_Witness ==
    /\ \E k \in 1..Len(sales) : sales[k].is_return /\ sales[k].customer_id = Null /\ sales[k].qty > 0
    /\ \E form \in ReturnFormInputs(Store) : form.qty = 0

\* the quantities a form rejects as not positive
NonPositive == {q \in QtyInputs : q <= 0}

\* C17: non-positive input is rejected before anything is changed: a return of qty < 0, a
\* sale, sale edit, return edit or stock entry of qty <= 0 as an invalid quantity, and a
\* payment of amount <= 0 as an invalid amount; the store stays as it was
C17_NonPositiveRejected ==
    /\ \A key \in ComboKeys(Store) : \A form \in ReturnForms(Store, key, {q \in QtyInputs : q < 0}) :
          /\ handleReturnSubmit(Store, form).err = ErrReturnQtyNegative
          /\ handleReturnSubmit(Store, form).st = Store
    /\ \A form \in SaleForms(Store, NonPositive) :
          /\ handleSaleSubmit(Store, form).err = ErrQtyPositive
          /\ handleSaleSubmit(Store, form).st = Store
    /\ \A form \in StockForms(Store, NonPositive) :
          /\ handleStockSubmit(Store, form).err = ErrQtyPositive
          /\ handleStockSubmit(Store, form).st = Store
    /\ \A form \in PaymentForms(Store, {a \in 0..MaxPay : a <= 0}) :
          /\ handlePaymentSubmit(Store, form).err = ErrPayAmount
          /\ handlePaymentSubmit(Store, form).st = Store
    /\ \A k \in 1..Len(sales) :
          IF sales[k].is_return
          THEN \A form \in ReturnEditForms(sales[k], NonPositive) :
                  /\ returnEditSubmit(Store, form).err = ErrReturnEditQty
                  /\ returnEditSubmit(Store, form).st = Store
          ELSE \A form \in SaleEditForms(Store, sales[k], NonPositive) :
                  /\ saleEditSubmit(Store, form).err = ErrQtyPositive
                  /\ saleEditSubmit(Store, form).st = Store

\* a payment of a positive amount is on record next to a sale and a return: every form the
\* claim names can be submitted
C17_Witness ==
    /\ \E c \in 1..Len(credits) :
          credits[c].is_payment /\ credits[c].sale_id = Null /\ credits[c].amount > 0
    /\ \E k \in 1..Len(sales) : sales[k].is_return
    /\ \E k \in 1..Len(sales) : ~sales[k].is_return

\* the ids of a collection, and whether no two of its records share one
IdsOf(s) == {s[k].id : k \in 1..Len(s)}

DistinctIds(s) == \A i \in 1..Len(s) : \A j \in 1..Len(s) : i # j => s[i].id # s[j].id

\* every record has an id of its own, below the counter of its kind
IdsBelowCounters ==
    /\ DistinctIds(products) /\ \A id \in IdsOf(products) : id < ids.product
    /\ DistinctIds(customers) /\ \A id \in IdsOf(customers) : id < ids.customer
    /\ DistinctIds(sales) /\ \A id \in IdsOf(sales) : id < ids.sale
    /\ DistinctIds(stock_movements) /\ \A id \in IdsOf(stock_movements) : id < ids.stock
    /\ DistinctIds(credits) /\ \A id \in IdsOf(credits) : id < ids.credit

\* a step never lowers a counter, and a record it adds takes an id at or above the counter
IdsOnlyGrow ==
    /\ \A key \in DOMAIN ids : ids'[key] >= ids[key]
    /\ \A id \in IdsOf(products') \ IdsOf(products) : id >= ids.product
    /\ \A id \in IdsOf(customers') \ IdsOf(customers) : id >= ids.customer
    /\ \A id \in IdsOf(sales') \ IdsOf(sales) : id >= ids.sale
    /\ \A id \in IdsOf(stock_movements') \ IdsOf(stock_movements) : id >= ids.stock
    /\ \A id \in IdsOf(credits') \ IdsOf(credits) : id >= ids.credit

\* C18: ids are assigned per kind in increasing order and never reused: the ids of a
\* collection are distinct and below the kind's counter, the counter never goes down, and
\* a new record's id is above every id assigned before, deleted records included
C18_IdsNeverReused == []IdsBelowCounters /\ [][IdsOnlyGrow]_vars

\* the seed sale and its charge are deleted and the records made since took the next ids
C18_Witness ==
    /\ ~HasId(sales, 1) /\ HasId(sales, 2)
    /\ ~HasId(credits, 1) /\ HasId(credits, 2)
    /\ ~HasId(stock_movements, 1) /\ HasId(stock_movements, 2)

\* two lists hold the same records, none missing and none extra
SameRecords(a, b) == Len(a) = Len(b) /\ Range(a) = Range(b)

\* a list is in non-increasing timestamp order
NewestFirst(s) == \A i \in 1..Len(s) : \A j \in 1..Len(s) : i < j => s[i].ts >= s[j].ts

\* C19: the snapshot of a committed store holds exactly the stored products, customers,
\* sales, movements and credit entries, balance rows computed from exactly those credit
\* entries, and sales, movements and credit entries newest first
C19_SnapshotIsStore ==
    LET snap == materialize(Store)
    IN  /\ SameRecords(snap.products, products)
        /\ SameRecords(snap.customers, customers)
        /\ SameRecords(snap.sales, sales)
        /\ SameRecords(snap.stock_movements, stock_movements)
        /\ SameRecords(snap.credits, credits)
        /\ DOMAIN snap.customer_balances = IdsOf(snap.customers)
        /\ \A cid \in IdsOf(snap.customers) :
              /\ snap.customer_balances[cid].total_credit =
                     SumSeq(Filter(snap.credits, LAMBDA cr : cr.customer_id = cid /\ ~cr.is_payment),
                            LAMBDA cr : cr.amount)
              /\ snap.customer_balances[cid].total_paid =
                     SumSeq(Filter(snap.credits, LAMBDA cr : cr.customer_id = cid /\ cr.is_payment),
                            LAMBDA cr : cr.amount)
        /\ NewestFirst(snap.sales)
        /\ NewestFirst(snap.stock_movements)
        /\ NewestFirst(snap.credits)

\* three commands have each added a sale, a movement and a credit entry to the seed's
C19_Witness ==
    /\ Len(sales) >= 4
    /\ Len(stock_movements) >= 4
    /\ Len(credits) >= 4

\* the display after a failed command: the message shown, the snapshot as before, not loading
ShowsErrorOnly(res) ==
    /\ runActionView(viewOf(Store), res).error = res.err
    /\ runActionView(viewOf(Store), res).data = viewOf(Store).data
    /\ ~runActionView(viewOf(Store), res).loading

\* C20: when a command fails the message is shown, the displayed snapshot stays, loading is
\* off and the form or dialog that issued it keeps its fields: sale, return and payment
\* form, sale-edit and return-edit dialog are emptied or closed only after a success
C20_FailedCommandKeepsForm ==
    /\ \A form \in SaleFormInputs(Store) :
          handleSaleSubmit(Store, form).err # NoError =>
              saleFormKept(Store, form) /\ ShowsErrorOnly(handleSaleSubmit(Store, form))
    /\ \A form \in ReturnFormInputs(Store) :
          handleReturnSubmit(Store, form).err # NoError =>
              returnFormKept(Store, form) /\ ShowsErrorOnly(handleReturnSubmit(Store, form))
    /\ \A form \in PaymentFormInputs(Store) :
          handlePaymentSubmit(Store, form).err # NoError =>
              paymentFormKept(Store, form) /\ ShowsErrorOnly(handlePaymentSubmit(Store, form))
    /\ \A k \in 1..Len(sales) :
          IF sales[k].is_return
          THEN \A form \in ReturnEditInputs(sales[k]) :
                  returnEditSubmit(Store, form).err # NoError =>
                      returnEditKept(Store, form) /\ ShowsErrorOnly(returnEditSubmit(Store, form))
          ELSE \A form \in SaleEditInputs(Store, sales[k]) :
                  saleEditSubmit(Store, form).err # NoError =>
                      saleEditKept(Store, form) /\ ShowsErrorOnly(saleEditSubmit(Store, form))

\* C21: deleting a product leaves every sale and stock movement that referenced it in
\* place and unchanged, product_id and product_name snapshot included
C21_ProductDeleteKeepsHistory ==
    \A p \in ProductIds(Store) :
        /\ local_delete_product(Store, p).st.sales = sales
        /\ local_delete_product(Store, p).st.stock_movements = stock_movements

\* the credit entries of a customer, in stored order
EntriesOf(st, cid) == Filter(st.credits, LAMBDA cr : cr.customer_id = cid)

\* C22: delete_customer(c) removes c and all credit entries of c, deletes no sale, sets
\* customer_id to null on the sales of c and leaves the other sales alone; the snapshot
\* then has no balance row for c, and the entries and balance rows of the other customers
\* are as before
C22_CustomerDeleteDetaches ==
    \A c \in CustomerIds(Store) :
        LET after == local_delete_customer(Store, c).st
        IN  /\ local_delete_customer(Store, c).err = NoError
            /\ c \notin CustomerIds(after)
            /\ EntriesOf(after, c) = <<>>
            /\ Len(after.sales) = Len(sales)
            /\ \A k \in 1..Len(sales) :
                  /\ after.sales[k].id = sales[k].id
                  /\ sales[k].customer_id = c => after.sales[k].customer_id = Null
                  /\ sales[k].customer_id # c => after.sales[k] = sales[k]
            /\ c \notin DOMAIN materialize(after).customer_balances
            /\ \A o \in CustomerIds(Store) \ {c} :
                  /\ o \in CustomerIds(after)
                  /\ EntriesOf(after, o) = EntriesOf(Store, o)
                  /\ materialize(after).customer_balances[o] = materialize(Store).customer_balances[o]

\* the seed customer has been deleted: its sale is still on record without a customer,
\* its entries are gone, and another customer with a credit entry is left
C22_Witness ==
    /\ 1 \notin CustomerIds(Store)
    /\ \E k \in 1..Len(sales) : sales[k].id = 1 /\ sales[k].customer_id = Null
    /\ \A c \in 1..Len(credits) : credits[c].customer_id # 1
    /\ \E c \in 1..Len(credits) : credits[c].customer_id \in CustomerIds(Store)

\* C23: after update_customer(c, name) every sale, stock movement and credit entry whose
\* customer_id is c carries the new customer name
C23_CustomerRenameReachesRecords ==
    \A c \in CustomerIds(Store) : \A n \in NameSet :
        LET after == local_update_customer(Store, [id |-> c, name |-> n]).st
        IN  /\ \A k \in 1..Len(after.sales) :
                  after.sales[k].customer_id = c => after.sales[k].customer_name = n
            /\ \A k \in 1..Len(after.credits) :
                  after.credits[k].customer_id = c => after.credits[k].customer_name = n
            /\ \A k \in 1..Len(after.stock_movements) :
                  after.stock_movements[k].customer_id = c => after.stock_movements[k].customer_name = n

\* the payload update_sale receives from a sale-edit form
SaleUpdatePayload(form) ==
    [id |-> form.id, qty |-> form.qty, unit_price |-> form.unit_price,
     customer_id |-> form.customer_id, is_credit |-> form.is_credit]

\* a successful update_sale moved the stock by the qty difference and rewrote the linked
\* OUT movement
SaleUpdateApplied(st, sale, payload, res) ==
    /\ res.err = NoError
    /\ qtyOf(res.st, sale.product_id) = qtyOf(st, sale.product_id) - (payload.qty - sale.qty)
    /\ \E j \in 1..Len(res.st.stock_movements) :
          /\ res.st.stock_movements[j].sale_id = sale.id
          /\ res.st.stock_movements[j].kind = "OUT"
          /\ res.st.stock_movements[j].qty = payload.qty
          /\ res.st.stock_movements[j].unit_price = payload.unit_price
          /\ res.st.stock_movements[j].total_amount = payload.unit_price * payload.qty

LinkedCharges(st, saleId) == Filter(st.credits, LAMBDA cr : IsChargeOf(cr, saleId))

OtherEntries(st, saleId) == Filter(st.credits, LAMBDA cr : ~IsChargeOf(cr, saleId))

\* C25: a successful update_sale reconciles the linked charge entry: credit before (with
\* its entry) and after: that entry carries the new total and no second one exists; credit
\* to non-credit: no linked charge entry is left; non-credit to credit: exactly one, of the
\* new total, for the sale's customer.  Payments and entries of other sales are untouched
C25_UpdateSaleReconcilesCharge ==
    \A k \in 1..Len(sales) :
        ~sales[k].is_return =>
            \A form \in SaleEditForms(Store, sales[k], 1..MaxQty) :
                LET res == saleEditSubmit(Store, form)
                    before == LinkedCharges(Store, sales[k].id)
                    linked == LinkedCharges(res.st, sales[k].id)
                IN  res.err = NoError =>
                        /\ OtherEntries(res.st, sales[k].id) = OtherEntries(Store, sales[k].id)
                        /\ (sales[k].is_credit /\ form.is_credit /\ Len(before) = 1) =>
                               /\ Len(linked) = 1
                               /\ linked[1].id = before[1].id
                               /\ linked[1].amount = form.unit_price * form.qty
                        /\ (sales[k].is_credit /\ ~form.is_credit) => Len(linked) = 0
                        /\ (~sales[k].is_credit /\ form.is_credit) =>
                               /\ Len(linked) = 1
                               /\ linked[1].amount = form.unit_price * form.qty
                               /\ linked[1].customer_id = form.customer_id

\* a sequence without the one element it has at position i
WithoutAt(s, i) == SubSeq(s, 1, i - 1) \o SubSeq(s, i + 1, Len(s))

\* C26: a successful delete_sale(S) adds S.qty to the product's qty, removes S, the one
\* stock movement linked to S and the charge entry linked to S, and nothing else: the
\* other products, sales, movements, entries, the customers and the id counters stay
C26_DeleteSaleReverses ==
    \A k \in 1..Len(sales) :
        LET S == sales[k]
            res == local_delete_sale(Store, S.id)
        IN  res.err = NoError =>
                /\ res.st.sales = WithoutAt(sales, k)
                /\ \E j \in 1..Len(stock_movements) :
                      /\ stock_movements[j].sale_id = S.id
                      /\ res.st.stock_movements = WithoutAt(stock_movements, j)
                /\ LinkedCharges(res.st, S.id) = <<>>
                /\ OtherEntries(res.st, S.id) = OtherEntries(Store, S.id)
                /\ Len(credits) - Len(res.st.credits) <= 1
                /\ Len(res.st.products) = Len(products)
                /\ \A i \in 1..Len(products) :
                      res.st.products[i] =
                          IF products[i].id = S.product_id
                          THEN [products[i] EXCEPT !.qty = @ + S.qty] ELSE products[i]
                /\ res.st.customers = customers
                /\ res.st.ids = ids

\* the seed sale has been deleted: its stock is back, its movement and charge are gone,
\* while another sale and a payment of the seed customer are still on record
C26_Witness ==
    /\ 1 \notin IdsOf(sales)
    /\ 2 \in ProductIds(Store)
    /\ qtyOf(Store, 2) = SeedQty2
    /\ \A j \in 1..Len(stock_movements) : stock_movements[j].sale_id # 1
    /\ \A c \in 1..Len(credits) : credits[c].sale_id # 1
    /\ \E k \in 1..Len(sales) : ~sales[k].is_return
    /\ \E c \in 1..Len(credits) : credits[c].is_payment /\ credits[c].customer_id = 1

\* the payload update_return receives from a return-edit form
ReturnUpdatePayload(form) == [id |-> form.id, qty |-> form.qty, override_amount |-> form.amount]

\* C27: update_return keeps every existing credit entry as it is.  For a return with a
\* customer whose total changes by d # 0 it puts exactly one new entry in front, of
\* amount |d|, a payment if the total grew and a charge if it shrank; with d = 0 or
\* without a customer the entries stay as they are.  The product's qty moves by the qty
\* difference and the linked RETURN movement takes the new qty, unit price and total
C27_UpdateReturnAppendsAdjustment ==
    \A k \in 1..Len(sales) :
        sales[k].is_return =>
            \A form \in ReturnEditForms(sales[k], 1..MaxQty) :
                LET ret == sales[k]
                    res == local_update_return(Store, ReturnUpdatePayload(form))
                    d == form.amount - ret.total_amount
                IN  /\ res.err = NoError
                    /\ IF ret.customer_id # Null /\ d # 0
                       THEN /\ Len(res.st.credits) = Len(credits) + 1
                            /\ Tail(res.st.credits) = credits
                            /\ Head(res.st.credits).amount = Abs(d)
                            /\ Head(res.st.credits).is_payment = (d > 0)
                            /\ Head(res.st.credits).customer_id = ret.customer_id
                            /\ Head(res.st.credits).id \notin IdsOf(credits)
                       ELSE res.st.credits = credits
                    /\ qtyOf(res.st, ret.product_id) = qtyOf(Store, ret.product_id) + (form.qty - ret.qty)
                    /\ res.st.sales[k].total_amount = form.amount
                    /\ \E j \in 1..Len(res.st.stock_movements) :
                          /\ res.st.stock_movements[j].sale_id = ret.id
                          /\ res.st.stock_movements[j].kind = "RETURN"
                          /\ res.st.stock_movements[j].qty = form.qty
                          /\ res.st.stock_movements[j].unit_price = res.st.sales[k].unit_price
                          /\ res.st.stock_movements[j].total_amount = form.amount

\* a customer's return has been edited to a smaller total: next to its settlement payment
\* there is a charge entry for the difference
C27_Witness ==
    \E k \in 1..Len(sales) :
        /\ sales[k].is_return
        /\ sales[k].customer_id # Null
        /\ \E c \in 1..Len(credits) :
              credits[c].sale_id = sales[k].id /\ credits[c].is_payment /\ credits[c].amount > sales[k].total_amount
        /\ \E c \in 1..Len(credits) : credits[c].sale_id = sales[k].id /\ ~credits[c].is_payment

\* C28: delete_return(R) sets the product's qty to max(qty - R.qty, 0), removes R and its
\* linked RETURN movement and nothing else of the sales and movements, deletes no credit
\* entry, and puts one charge entry of R's total in front when R has a customer, none
\* when R is a walk-in return
C28_DeleteReturnReinstates ==
    \A k \in 1..Len(sales) :
        sales[k].is_return =>
            LET R == sales[k]
                res == local_delete_return(Store, R.id)
            IN  /\ res.err = NoError
                /\ qtyOf(res.st, R.product_id) = Max(qtyOf(Store, R.product_id) - R.qty, 0)
                /\ res.st.sales = WithoutAt(sales, k)
                /\ \E j \in 1..Len(stock_movements) :
                      /\ stock_movements[j].sale_id = R.id
                      /\ stock_movements[j].kind = "RETURN"
                      /\ res.st.stock_movements = WithoutAt(stock_movements, j)
                /\ IF R.customer_id # Null
                   THEN /\ Len(res.st.credits) = Len(credits) + 1
                        /\ Tail(res.st.credits) = credits
                        /\ ~Head(res.st.credits).is_payment
                        /\ Head(res.st.credits).amount = R.total_amount
                        /\ Head(res.st.credits).customer_id = R.customer_id
                   ELSE res.st.credits = credits

\* a customer's return has been deleted: its settlement payment is still on record, naming
\* a return that no longer exists, next to the charge that reinstates the debt
C28_Witness ==
    \E c \in 1..Len(credits) : \E r \in 1..Len(credits) :
        /\ credits[c].is_payment
        /\ credits[c].sale_id # Null
        /\ credits[c].sale_id \notin IdsOf(sales)
        /\ ~credits[r].is_payment
        /\ credits[r].sale_id = Null
        /\ credits[r].customer_id = credits[c].customer_id
        /\ credits[r].amount = credits[c].amount

\* payments minus charges among the entries that name a sale or return id
NetSettled(st, saleId) ==
    SumSeq(Filter(st.credits, LAMBDA cr : cr.sale_id = saleId /\ cr.is_payment), LAMBDA cr : cr.amount)
    - SumSeq(Filter(st.credits, LAMBDA cr : cr.sale_id = saleId /\ ~cr.is_payment), LAMBDA cr : cr.amount)

\* total_paid - total_credit of a customer over the entries that do not name saleId
NetPaidWithout(st, cid, saleId) ==
    SumSeq(Filter(st.credits, LAMBDA cr : cr.customer_id = cid /\ cr.sale_id # saleId /\ cr.is_payment),
           LAMBDA cr : cr.amount)
    - SumSeq(Filter(st.credits, LAMBDA cr : cr.customer_id = cid /\ cr.sale_id # saleId /\ ~cr.is_payment),
             LAMBDA cr : cr.amount)

\* C29: for every return R with a customer, payments minus charges over the entries with
\* sale_id = R.id is R's current total; and delete_return(R) leaves the customer's
\* total_paid - total_credit where it would be had no entry ever been made for R
C29_ReturnEntriesNetToTotal ==
    \A k \in 1..Len(sales) :
        (sales[k].is_return /\ sales[k].customer_id # Null) =>
            LET R == sales[k]
                after == local_delete_return(Store, R.id).st
                row == computeBalances(after)[R.customer_id]
            IN  /\ NetSettled(Store, R.id) = R.total_amount
                /\ R.customer_id \in CustomerIds(after)
                /\ row.total_paid - row.total_credit = NetPaidWithout(Store, R.customer_id, R.id)

\* a customer's return carries its settlement payment and two adjustment entries: it was
\* edited twice, to another total each time
C29_Witness ==
    \E k \in 1..Len(sales) :
        /\ sales[k].is_return
        /\ sales[k].customer_id # Null
        /\ Len(Filter(credits, LAMBDA cr : cr.sale_id = sales[k].id)) = 3

\* entry a comes before entry b in (timestamp, id) order
Precedes(a, b) == a.ts < b.ts \/ (a.ts = b.ts /\ a.id < b.id)

\* the entries of E's customer that come before E
EarlierEntries(st, E) == {P \in Range(st.credits) : P.customer_id = E.customer_id /\ Precedes(P, E)}

\* the store with the credit entries of one customer only
OnlyEntriesOf(st, cid) == [st EXCEPT !.credits = Filter(@, LAMBDA cr : cr.customer_id = cid)]

\* C30: for every credit entry E, the balance before E is 0 if E is its customer's first
\* entry in (timestamp, id) order and else the balance after the customer's previous
\* entry; the balance after E is before + amount for a charge and max(before - amount, 0)
\* for a payment; neither depends on other customers' entries and both are >= 0
C30_RunningBalancePerEntry ==
    \A k \in 1..Len(credits) :
        LET E == credits[k]
            before == creditOutstandingBeforeById(Store)[E.id]
            after == creditOutstandingById(Store)[E.id]
            earlier == EarlierEntries(Store, E)
        IN  /\ before = IF earlier = {} THEN 0
                        ELSE creditOutstandingById(Store)[
                                 (CHOOSE P \in earlier : \A Q \in earlier : Q = P \/ Precedes(Q, P)).id]
            /\ after = IF E.is_payment THEN Max(before - E.amount, 0) ELSE before + E.amount
            /\ before >= 0
            /\ after >= 0
            /\ creditOutstandingBeforeById(OnlyEntriesOf(Store, E.customer_id))[E.id] = before
            /\ creditOutstandingById(OnlyEntriesOf(Store, E.customer_id))[E.id] = after

\* a customer has three entries or more and one of them is a payment larger than the
\* balance before it: the floor at 0 applies in the middle of a ledger
C30_Witness ==
    \E k \in 1..Len(credits) :
        /\ credits[k].is_payment
        /\ creditOutstandingBeforeById(Store)[credits[k].id] < credits[k].amount
        /\ Cardinality(EarlierEntries(Store, credits[k])) >= 2

\* C31: for every (customer-or-walk-in, product) pair the outstanding quantity of the
\* return candidates is the qty sold to the pair minus the qty it returned, floored at 0,
\* and a pair with remainder 0 is not offered
C31_OutstandingIsRemainder ==
    \A pair \in Pairs(Store) :
        IF Max(Remainder(Store, pair), 0) = 0
        THEN pair \notin ComboKeys(Store)
        ELSE /\ pair \in ComboKeys(Store)
             /\ returnCombos(Store, pair).outstanding = Max(Remainder(Store, pair), 0)

\* C32: every stored credit entry has an amount > 0, whichever operation made it
C32_CreditAmountsPositive == \A c \in 1..Len(credits) : credits[c].amount > 0

\* an operation on record R left every other product, every other sale or return and
\* every movement not linked to R as it was
OthersUntouched(st, R, after) ==
    /\ Len(after.products) = Len(st.products)
    /\ \A i \in 1..Len(st.products) :
          st.products[i].id # R.product_id => after.products[i] = st.products[i]
    /\ Filter(after.sales, LAMBDA s : s.id # R.id) = Filter(st.sales, LAMBDA s : s.id # R.id)
    /\ Filter(after.stock_movements, LAMBDA m : m.sale_id # R.id)
           = Filter(st.stock_movements, LAMBDA m : m.sale_id # R.id)

\* C33: update_sale, delete_sale, update_return and delete_return on a record R change
\* the qty of no product but R's, no sale or return but R and no movement but the one
\* linked to R; update_sale and delete_sale also leave every credit entry but the charge
\* linked to R as it was
C33_EditsLeaveOthersAlone ==
    \A k \in 1..Len(sales) :
        LET R == sales[k]
        IN  IF R.is_return
            THEN /\ OthersUntouched(Store, R, local_delete_return(Store, R.id).st)
                 /\ \A form \in ReturnEditForms(R, 1..MaxQty) :
                       OthersUntouched(Store, R, local_update_return(Store, ReturnUpdatePayload(form)).st)
            ELSE /\ OthersUntouched(Store, R, local_delete_sale(Store, R.id).st)
                 /\ OtherEntries(local_delete_sale(Store, R.id).st, R.id) = OtherEntries(Store, R.id)
                 /\ \A form \in SaleEditForms(Store, R, 1..MaxQty) :
                       LET after == local_update_sale(Store, SaleUpdatePayload(form)).st
                       IN  /\ OthersUntouched(Store, R, after)
                           /\ OtherEntries(after, R.id) = OtherEntries(Store, R.id)

\* the seed sale has been edited while another sale and a return were on record
C33_Witness ==
    /\ \E k \in 1..Len(sales) : sales[k].id = 1 /\ sales[k].qty # SeedSaleQty
    /\ \E k \in 1..Len(sales) : sales[k].id # 1 /\ ~sales[k].is_return
    /\ \E k \in 1..Len(sales) : sales[k].is_return

\* C34: record_sale followed at once by delete_sale of the sale it created puts the
\* products' qty, the sales, the stock movements, the credit entries and every customer
\* balance back to what they were, for every qty, one above the stock on hand included
C34_SaleThenDeleteRestores ==
    \A form \in SaleForms(Store, 1..MaxQty) :
        LET sold == handleSaleSubmit(Store, form)
            undone == local_delete_sale(Saved(Store, sold), ids.sale).st
        IN  (sold.err = NoError /\ form.product_id \in ProductIds(Store)) =>
                /\ undone.products = products
                /\ undone.sales = sales
                /\ undone.stock_movements = stock_movements
                /\ undone.credits = credits
                /\ computeBalances(undone) = computeBalances(Store)

\* C35: every credit entry with a sale_id names a sale or return that is on record
C35_CreditEntriesNameRecords ==
    \A c \in 1..Len(credits) : credits[c].sale_id # Null => credits[c].sale_id \in IdsOf(sales)

\* C36: every customer_id stored on a sale, stock movement or credit entry is null or the
\* id of a customer on record
C36_CustomerIdsResolve ==
    /\ \A k \in 1..Len(sales) : sales[k].customer_id # Null => sales[k].customer_id \in CustomerIds(Store)
    /\ \A j \in 1..Len(stock_movements) :
          stock_movements[j].customer_id # Null => stock_movements[j].customer_id \in CustomerIds(Store)
    /\ \A c \in 1..Len(credits) : credits[c].customer_id \in CustomerIds(Store)

\* the products made by create_product (the seed products have no opening movement)
CreatedProducts(st) == {pid \in ProductIds(st) : pid >= loadState.ids.product}

\* how far a product's qty lies above what its stored movements add up to
Slack(st, pid) == qtyOf(st, pid) - NetMovement(st, pid)

SlackNeverNegative == \A pid \in CreatedProducts(Store) : Slack(Store, pid) >= 0

\* a new product starts level with its movements; afterwards the distance never shrinks
\* and grows only in a step that leaves the product at 0, which is a clamp
SlackGrowsOnlyByClamp ==
    \A pid \in CreatedProducts(Store') :
        IF pid \in ProductIds(Store)
        THEN /\ Slack(Store', pid) >= Slack(Store, pid)
             /\ Slack(Store', pid) > Slack(Store, pid) => qtyOf(Store', pid) = 0
        ELSE Slack(Store', pid) = 0

\* C37: the qty of a product made by create_product is at least the sum of its stored IN
\* and RETURN movements less the sum of its OUT movements, and equal to it until an
\* operation clamps the product's stock at 0
C37_QtyAtLeastMovements == []SlackNeverNegative /\ [][SlackGrowsOnlyByClamp]_vars

\* a created product was clamped at 0 and restocked since: its qty is positive and above
\* what its movements add up to
C37_Witness ==
    \E pid \in CreatedProducts(Store) : qtyOf(Store, pid) > 0 /\ Slack(Store, pid) > 0

====
